---- MODULE Spec2Model ----
(***************************************************************************)
(* SinoJTAG: bit-banged JTAG / ICP engine for SinoWealth 8051 targets.     *)
(*                                                                         *)
(* The module models                                                       *)
(*   - SimpleJTAG::Phy   (pin writes, TCK pulses, stream_bits),            *)
(*   - SimpleJTAG::Tap   (tracked TAP state, goto_state, IR/DR scans),     *)
(*   - sinowealth::Phy   (wire mode manager: init/stop/mode/reset),        *)
(*   - sinowealth::ICP   (byte-serial protocol),                           *)
(*   - the RPC command surface (phy, tap and icp commands).                *)
(*                                                                         *)
(* Every method is an operator from a machine record to a machine record,  *)
(* composed in program order; an action applies one whole call.            *)
(***************************************************************************)
EXTENDS Integers, Sequences, FiniteSets, TLC

\* ------------------------------------------------------------------------
\* Bounds of the model (not program constants)
\* ------------------------------------------------------------------------

\* largest count passed to idle_clocks
MaxIdle == 2

\* ------------------------------------------------------------------------
\* SimpleJTAG::Tap::State
\* ------------------------------------------------------------------------
TestLogicReset == 0
RunTestIdle == 1
SelectDRScan == 2
CaptureDR == 3
ShiftDR == 4
Exit1DR == 5
PauseDR == 6
Exit2DR == 7
UpdateDR == 8
SelectIRScan == 9
CaptureIR == 10
ShiftIR == 11
Exit1IR == 12
PauseIR == 13
Exit2IR == 14
UpdateIR == 15

States == 0..15

\* IEEE 1149.1 TAP controller state diagram: entry s+1 is
\* <<next state for TMS=0, next state for TMS=1>>.
Ieee1149Table ==
  << <<1, 0>>,   \* Test-Logic-Reset
     <<1, 2>>,   \* Run-Test/Idle
     <<3, 9>>,   \* Select-DR-Scan
     <<4, 5>>,   \* Capture-DR
     <<4, 5>>,   \* Shift-DR
     <<6, 8>>,   \* Exit1-DR
     <<6, 7>>,   \* Pause-DR
     <<4, 8>>,   \* Exit2-DR
     <<1, 2>>,   \* Update-DR
     <<10, 0>>,  \* Select-IR-Scan
     <<11, 12>>, \* Capture-IR
     <<11, 12>>, \* Shift-IR
     <<13, 15>>, \* Exit1-IR
     <<13, 14>>, \* Pause-IR
     <<11, 15>>, \* Exit2-IR
     <<1, 2>> >> \* Update-IR

\* the target's TAP controller: one IEEE 1149.1 transition per TCK pulse
TargetTap(s, tms) == Ieee1149Table[s + 1][IF tms THEN 2 ELSE 1]

\* next_state with the Exit2-DR / TMS=0 edge going back to Pause-DR
next_state_exit2(s, tms) ==
  CASE s = TestLogicReset -> IF tms THEN TestLogicReset ELSE RunTestIdle
    [] s = RunTestIdle    -> IF tms THEN SelectDRScan ELSE RunTestIdle
    [] s = SelectDRScan   -> IF tms THEN SelectIRScan ELSE CaptureDR
    [] s = CaptureDR      -> IF tms THEN Exit1DR ELSE ShiftDR
    [] s = ShiftDR        -> IF tms THEN Exit1DR ELSE ShiftDR
    [] s = Exit1DR        -> IF tms THEN UpdateDR ELSE PauseDR
    [] s = PauseDR        -> IF tms THEN Exit2DR ELSE PauseDR
    [] s = Exit2DR        -> IF tms THEN UpdateDR ELSE PauseDR
    [] s = UpdateDR       -> IF tms THEN SelectDRScan ELSE RunTestIdle
    [] s = SelectIRScan   -> IF tms THEN TestLogicReset ELSE CaptureIR
    [] s = CaptureIR      -> IF tms THEN Exit1IR ELSE ShiftIR
    [] s = ShiftIR        -> IF tms THEN Exit1IR ELSE ShiftIR
    [] s = Exit1IR        -> IF tms THEN UpdateIR ELSE PauseIR
    [] s = PauseIR        -> IF tms THEN Exit2IR ELSE PauseIR
    [] s = Exit2IR        -> IF tms THEN UpdateIR ELSE ShiftIR
    [] s = UpdateIR       -> IF tms THEN SelectDRScan ELSE RunTestIdle
    [] OTHER              -> TestLogicReset

\* Tap::next_state(State s, bool tms)
next_state(s, tms) ==
  CASE s = TestLogicReset -> IF tms THEN TestLogicReset ELSE RunTestIdle
    [] s = RunTestIdle    -> IF tms THEN SelectDRScan ELSE RunTestIdle
    [] s = SelectDRScan   -> IF tms THEN SelectIRScan ELSE CaptureDR
    [] s = CaptureDR      -> IF tms THEN Exit1DR ELSE ShiftDR
    [] s = ShiftDR        -> IF tms THEN Exit1DR ELSE ShiftDR
    [] s = Exit1DR        -> IF tms THEN UpdateDR ELSE PauseDR
    [] s = PauseDR        -> IF tms THEN Exit2DR ELSE PauseDR
    [] s = Exit2DR        -> IF tms THEN UpdateDR ELSE ShiftDR
    [] s = UpdateDR       -> IF tms THEN SelectDRScan ELSE RunTestIdle
    [] s = SelectIRScan   -> IF tms THEN TestLogicReset ELSE CaptureIR
    [] s = CaptureIR      -> IF tms THEN Exit1IR ELSE ShiftIR
    [] s = ShiftIR        -> IF tms THEN Exit1IR ELSE ShiftIR
    [] s = Exit1IR        -> IF tms THEN UpdateIR ELSE PauseIR
    [] s = PauseIR        -> IF tms THEN Exit2IR ELSE PauseIR
    [] s = Exit2IR        -> IF tms THEN UpdateIR ELSE ShiftIR
    [] s = UpdateIR       -> IF tms THEN SelectDRScan ELSE RunTestIdle
    [] OTHER              -> TestLogicReset

\* ------------------------------------------------------------------------
\* Tap::goto_state: breadth-first search over the transition graph
\* ------------------------------------------------------------------------

\* content of a local array slot that was never written
Uninit == -1

\* locals of goto_state after `queue[tail++] = start`
bfs_start(start) ==
  [ queue    |-> [i \in 0..15 |-> IF i = 0 THEN start ELSE Uninit],
    prev     |-> [i \in 0..15 |-> Uninit],
    prev_tms |-> [i \in 0..15 |-> Uninit],
    visited  |-> [i \in 0..15 |-> i = start],
    head     |-> 0,
    tail     |-> 1 ]

\* body of `for (tms = 0; tms < 2; ++tms)` for one tms
bfs_visit(b, s, tms) ==
  LET ns == next_state(s, tms # 0) IN
  IF ~b.visited[ns]
    THEN [b EXCEPT !.visited[ns] = TRUE,
                   !.prev[ns] = s,
                   !.prev_tms[ns] = tms,
                   !.queue[b.tail] = ns,
                   !.tail = @ + 1]
    ELSE b

RECURSIVE bfs_while_lifo(_, _)
\* the search loop taking the most recently queued state (`queue[--tail]`)
bfs_while_lifo(b, goal) ==
  IF 0 < b.tail /\ ~b.visited[goal]
    THEN LET s  == b.queue[b.tail - 1]
             b0 == [b EXCEPT !.tail = @ - 1]
             b1 == bfs_visit(b0, s, 0)
             b2 == bfs_visit(b1, s, 1)
         IN bfs_while_lifo(b2, goal)
    ELSE b

RECURSIVE bfs_while(_, _)
\* `while (head < tail && !visited[goal])`
bfs_while(b, goal) ==
  IF b.head < b.tail /\ ~b.visited[goal]
    THEN LET s  == b.queue[b.head]
             b0 == [b EXCEPT !.head = @ + 1]
             b1 == bfs_visit(b0, s, 0)
             b2 == bfs_visit(b1, s, 1)
         IN bfs_while(b2, goal)
    ELSE b

RECURSIVE bfs_backtrack(_, _, _, _)
\* `for (cur = goal; cur != start; cur = prev[cur]) seq[len++] = prev_tms[cur]`
\* seq is returned in array order (goal end first)
bfs_backtrack(b, cur, start, seq) ==
  IF cur = start THEN seq
  ELSE bfs_backtrack(b, b.prev[cur], start, Append(seq, b.prev_tms[cur]))

\* seq read from index 0 up (`step(seq[i++] != 0)`): the level that reaches
\* the goal goes out first
Reverse_none(s) == s

Reverse(s) == [i \in 1..Len(s) |-> s[Len(s) + 1 - i]]

\* the TMS levels goto_state passes to step(), in emission order
goto_seq(start, goal) ==
  IF start = goal THEN <<>>
  ELSE LET b == bfs_while(bfs_start(start), goal) IN
       IF ~b.visited[goal] THEN <<>>
       ELSE LET seq == bfs_backtrack(b, goal, start, <<>>) IN
            \* `while (len > 0) step(seq[--len] != 0)`
            [i \in 1..Len(seq) |-> Reverse(seq)[i] # 0]


\* ------------------------------------------------------------------------
\* Scan words.  A value shifted through stream_bits (uint8_t .. uint64_t) is
\* held as the set of the positions of its 1 bits, so that 32-bit words fit.
\* ------------------------------------------------------------------------

\* the word with value v, 0 <= v < 2^31
ToBits(v) == {i \in 0..30 : (v \div (2^i)) % 2 = 1}

RECURSIVE BitsValue(_, _, _)
\* the value of the bits lo .. hi - 1 of the word w
BitsValue(w, lo, hi) ==
  IF hi = lo + 1 THEN (IF lo \in w THEN 2^lo ELSE 0)
  ELSE BitsValue(w, lo, (lo + hi) \div 2) + BitsValue(w, (lo + hi) \div 2, hi)

\* the value of a word that has no bit above bit 30
FromBits(w) == BitsValue(w, 0, 31)

\* out >>= 1
ShiftRight1(w) == {i - 1 : i \in w \ {0}}

\* ------------------------------------------------------------------------
\* Machine record
\*   mode    sinowealth::Phy::_mode
\*   state_  SimpleJTAG::Tap::state_
\*   ddr     data-direction bit of each pin (TRUE = output)
\*   port    PORT bit of each pin (output level, or pull-up of an input)
\*   led     PORTB bit 5, ledDdr its direction bit
\*   hw      TAP state of the target
\*   tdo     level pattern the target drives on TDO during the call
\*   log     pin writes, TDO samples and VREF polls of the call, in program
\*           order
\*   clk     TCK pulses of the call: TMS and TDI level at the rising edge
\*   mlog    values held by _mode during the call, in order
\*   mpos    for each of them, the number of log entries that precede its
\*           assignment
\*   cap     capture of the last stream_bits
\*   out     what is left of the argument `out` of stream_bits
\*   buf     bytes received by ICP::receive_byte
\*   ret     value the last method returned
\* ------------------------------------------------------------------------
Pins == {"TCK", "TMS", "TDI", "TDO", "VREF"}

\* sinowealth::Phy::Mode
READY == 0
JTAG == 165
ICP == 105
NOT_INITIALIZED == 255

Modes == {READY, JTAG, ICP, NOT_INITIALIZED}

\* config::IR_BITS
IR_BITS == 4

\* config::tdo_pullup
tdo_pullup == TRUE

TdoPatterns == {"zeros", "ones", "alt"}
ScanTdo == {"zeros", "alt"}

\* level of TDO while the k-th TCK pulse of a call is high
TdoLevel(pat, k) ==
  CASE pat = "zeros" -> FALSE
    [] pat = "ones"  -> TRUE
    [] OTHER         -> (k % 2) = 1

\* r once m has been computed: a callee runs on the machine its caller left
After(m, r) == <<m, r>>[2]

\* A method body is the sequence of the calls it makes; a call is a tuple of
\* the callee's name and its arguments.
RECURSIVE Exec(_, _)

RECURSIVE Run(_, _, _, _)
\* the machine after the calls prog[lo], .., prog[hi - 1] have run on m in
\* that order (a range of several calls is run as eight consecutive parts
\* of at most c calls)
Run(m, prog, lo, hi) ==
  LET c == (hi - lo + 7) \div 8
      Part(x, a) == Run(x, prog, a, IF a + c < hi THEN a + c ELSE hi)
      x1 == Part(m, lo)
      x2 == Part(x1, lo + c)
      x3 == Part(x2, lo + 2 * c)
      x4 == Part(x3, lo + 3 * c)
      x5 == Part(x4, lo + 4 * c)
      x6 == Part(x5, lo + 5 * c)
      x7 == Part(x6, lo + 6 * c)
      x8 == Part(x7, lo + 7 * c)
  IN CASE hi <= lo    -> m
       [] hi = lo + 1 -> After(m, Exec(m, prog[lo]))
       [] OTHER       -> <<m, x1, x2, x3, x4, x5, x6, x7, x8>>[9]

\* the machine after the calls of prog have run on m, first to last
Body(m, prog) == Run(m, prog, 1, Len(prog) + 1)

\* Phy::write_port
write_port(m, pin, value) ==
  [m EXCEPT !.port[pin] = value, !.log = Append(@, <<pin, value>>)]

\* Phy::set_ddr
set_ddr(m, pin, output) == [m EXCEPT !.ddr[pin] = output]

\* the flash byte a simulated target holds at the address a
Flash(a) == (a + 3 * (a \div 256) + 17) % 256

\* the 30-bit CODESCAN register a simulated target captures for the latched
\* address a: the byte of a in bits [29:22], its most significant bit in
\* bit 22
SimCapture(a) ==
  FromBits({29 - i : i \in {j \in 0..7 : (Flash(a) \div (2^j)) % 2 = 1}})

\* the address a simulated target reads from the bits tin shifted into its
\* CODESCAN register: bits [15:0], the most significant address bit in bit 0
SimAddress(tin) == FromBits({15 - i : i \in {j \in 0..15 : j \in tin}})

\* a simulated target before any scan: latched is the address it answers
\* next, dr the register it shifts out, n the bits shifted so far, tin the
\* bits shifted in, lvl the level of TDO; script is, for a target that
\* replays a waveform, the set of the TCK pulses of the call at (and after)
\* which TDO is high
NoSim ==
  [latched |-> 0, dr |-> 0, n |-> 0, tin |-> {}, lvl |-> FALSE, script |-> {}]

\* a simulated target on a rising edge of TCK: m.hw is its TAP state before
\* the edge. It captures in Capture-DR, shifts in Shift-DR (TDO carries the
\* bit shifted out) and latches the address when it enters Update-DR.
SimClock(m) ==
  CASE m.hw = CaptureDR ->
         [m.sim EXCEPT !.dr = SimCapture(m.sim.latched), !.n = 0, !.tin = {},
                       !.lvl = FALSE]
    [] m.hw = ShiftDR ->
         [m.sim EXCEPT !.n = @ + 1,
                       !.tin = IF m.port["TDI"] THEN @ \cup {m.sim.n} ELSE @,
                       !.lvl = ((m.sim.dr \div (2^(m.sim.n))) % 2 = 1)]
    [] m.hw \in {Exit1DR, Exit2DR} /\ m.port["TMS"] ->
         [m.sim EXCEPT !.latched = SimAddress(m.sim.tin), !.lvl = FALSE]
    [] OTHER -> [m.sim EXCEPT !.lvl = FALSE]

\* Phy::read_pin(config::tdo::pin, ...): the level the target drives now
read_pin(m) ==
  CASE m.tdo = "sim"    -> m.sim.lvl
    [] m.tdo = "script" -> Len(m.clk) \in m.sim.script
    [] OTHER            -> TdoLevel(m.tdo, Len(m.clk))

\* Phy::set_tck
set_tck(m, value) == write_port(m, "TCK", value)

\* set_tck(true) inside a TCK pulse: the pulse is recorded with the TMS and
\* TDI levels written, the target samples TMS on the rising edge and its TAP
\* controller moves
tck_rise(m) ==
  [m EXCEPT !.port["TCK"] = TRUE,
            !.log = Append(@, <<"TCK", TRUE>>),
            !.clk = Append(@, [tms |-> m.port["TMS"], tdi |-> m.port["TDI"]]),
            !.hw = TargetTap(@, m.port["TMS"]),
            !.sim = IF m.tdo = "sim" THEN SimClock(m) ELSE @]

\* Phy::pulse_tck
pulse_tck(m) == set_tck(tck_rise(set_tck(m, FALSE)), FALSE)

\* Phy::next_state(bool tms)
Phy_next_state(m, tms) == After(m, pulse_tck(write_port(m, "TMS", tms)))

\* `if (read_pin(...)) in |= (T(1) << i)` of Phy::stream_bits
sample_tdo(m, i) ==
  LET b == read_pin(m) IN
  [m EXCEPT !.cap = IF b THEN @ \cup {i} ELSE @,
            !.log = Append(@, <<"TDO", b>>)]

\* a pass of the loop that reads TDO after it has set TCK low again
stream_loop_late(m, i, N, EXIT) ==
  [sample_tdo(set_tck(tck_rise(set_tck(
     write_port(write_port(m, "TMS", EXIT /\ (i + 1) = N),
                "TDI", 0 \in m.out),
     FALSE)), FALSE), i)
   EXCEPT !.out = ShiftRight1(@)]

\* one pass of the loop of Phy::stream_bits<N, EXIT, T>, for bit i
stream_loop(m, i, N, EXIT) ==
  [set_tck(sample_tdo(tck_rise(set_tck(
     write_port(write_port(m, "TMS", EXIT /\ (i + 1) = N),
                "TDI", 0 \in m.out),
     FALSE)), i), FALSE)
   EXCEPT !.out = ShiftRight1(@)]

\* Phy::stream_bits<N, EXIT, T>(out, in): `for (i = 0; i < N; ++i)`; the
\* capture is left in cap
stream_bits(m, N, EXIT, out) ==
  Body([m EXCEPT !.cap = {}, !.out = out],
       [k \in 1..N |-> <<"stream_bits pass", k - 1, N, EXIT>>])

\* SimpleJTAG::Phy::init
SimplePhy_init(m) ==
  write_port(write_port(write_port(write_port(
    set_ddr(set_ddr(set_ddr(set_ddr(m,
      "TCK", TRUE), "TMS", TRUE), "TDI", TRUE), "TDO", FALSE),
    "TDO", tdo_pullup), "TCK", FALSE), "TMS", TRUE), "TDI", FALSE)

\* SimpleJTAG::Phy::stop
SimplePhy_stop(m) ==
  write_port(write_port(write_port(write_port(
    set_ddr(set_ddr(set_ddr(set_ddr(m,
      "TCK", FALSE), "TMS", FALSE), "TDI", FALSE), "TDO", FALSE),
    "TDO", FALSE), "TCK", FALSE), "TMS", FALSE), "TDI", FALSE)

\* ------------------------------------------------------------------------
\* SimpleJTAG::Tap
\* ------------------------------------------------------------------------

\* step that clocks the PHY but forgets to advance state_
step_notrack(m, tms) == Phy_next_state(m, tms)

\* Tap::step
step(m, tms) ==
  [Phy_next_state(m, tms) EXCEPT !.state_ = next_state(@, tms)]

\* `for (i = 0; i < n; ++i) Phy::next_state(true)`
clock_ones(m, n) == Body(m, [i \in 1..n |-> <<"Phy::next_state", TRUE>>])

\* reset holding TMS high for 14 clocks
Tap_reset_long(m) == [clock_ones(m, 14) EXCEPT !.state_ = TestLogicReset]

\* reset with `i < 4`
Tap_reset_four(m) == [clock_ones(m, 4) EXCEPT !.state_ = TestLogicReset]

\* Tap::reset
Tap_reset(m) == [clock_ones(m, 5) EXCEPT !.state_ = TestLogicReset]

\* `while (len > 0) step(seq[--len] != 0)` over the levels in emission order
emit_seq(m, seq) == Body(m, [i \in 1..Len(seq) |-> <<"step", seq[i]>>])

\* the TMS levels goto_state emits for every pair of states, as a table
\* computed once
goto_seqs == [p \in States \X States |-> goto_seq(p[1], p[2])] @@ <<>>

\* Tap::goto_state
goto_state(m, target) == emit_seq(m, goto_seqs[<<m.state_, target>>])

\* Tap::DR<bits, T>
DR(m, bits, out) ==
  Body(m, << <<"goto_state", ShiftDR>>,
             <<"stream_bits", bits, TRUE, out>>,
             <<"state_ =", Exit1DR>>,
             <<"step", TRUE>> >>)

\* Tap::IR shifting IR_BITS + 1 bits
IR_long(m, out) ==
  Body(m, << <<"goto_state", ShiftIR>>,
             <<"stream_bits", IR_BITS + 1, TRUE, out>>,
             <<"state_ =", Exit1IR>>,
             <<"step", TRUE>> >>)

\* Tap::IR<T>
IR(m, out) ==
  Body(m, << <<"goto_state", ShiftIR>>,
             <<"stream_bits", IR_BITS, TRUE, out>>,
             <<"state_ =", Exit1IR>>,
             <<"step", TRUE>> >>)

\* Tap::idle_clocks
idle_clocks(m, count) == Body(m, [i \in 1..count |-> <<"step", FALSE>>])

\* Tap::InstructionSet
IDCODE == 14
BYPASS == 0..31

\* Tap::bypass
bypass(m) == IR(m, BYPASS)

\* idcode that selects the instruction and makes no DR scan
idcode_ir_only(m) == IR(m, ToBits(IDCODE))

\* Tap::idcode: the value read is left in cap
idcode(m) == DR(IR(m, ToBits(IDCODE)), 32, {})

\* ------------------------------------------------------------------------
\* Fixed-width integer helpers
\* ------------------------------------------------------------------------
\* a & b (both operands are computed first)
BitAnd(a, b) == <<a, b, FromBits(ToBits(a) \cap ToBits(b))>>[3]

\* a | b (both operands are computed first)
BitOr(a, b) == <<a, b, FromBits(ToBits(a) \cup ToBits(b))>>[3]

\* v >> k
Shr(v, k) == v \div (2^k)

\* v << k (in int, before any truncation)
Shl(v, k) == v * (2^k)

\* bit i of v
Bit(v, i) == (v \div (2^i)) % 2

\* detail::bit_reverse_8 / bit_reverse(uint8_t)
bit_reverse_8(v0) ==
  LET v1 == BitOr(BitAnd(Shr(v0, 4), 15), BitAnd(Shl(v0, 4), 240))
      v2 == BitOr(BitAnd(Shr(v1, 2), 51), BitAnd(Shl(v1, 2), 204))
      v3 == BitOr(BitAnd(Shr(v2, 1), 85), BitAnd(Shl(v2, 1), 170))
  IN <<v1, v2, v3>>[3]

\* bit_reverse_16 without its first statement (the two bytes are not swapped)
bit_reverse_16_bytes(v0) ==
  LET v2 == BitOr(BitAnd(Shr(v0, 4), 3855), BitAnd(Shl(v0, 4), 61680))
      v3 == BitOr(BitAnd(Shr(v2, 2), 13107), BitAnd(Shl(v2, 2), 52428))
      v4 == BitOr(BitAnd(Shr(v3, 1), 21845), BitAnd(Shl(v3, 1), 43690))
  IN <<v2, v3, v4>>[3]

\* detail::bit_reverse_16 / bit_reverse(uint16_t)
bit_reverse_16(v0) ==
  LET v1 == BitOr(BitAnd(Shr(v0, 8), 255), BitAnd(Shl(v0, 8), 65280))
      v2 == BitOr(BitAnd(Shr(v1, 4), 3855), BitAnd(Shl(v1, 4), 61680))
      v3 == BitOr(BitAnd(Shr(v2, 2), 13107), BitAnd(Shl(v2, 2), 52428))
      v4 == BitOr(BitAnd(Shr(v3, 1), 21845), BitAnd(Shl(v3, 1), 43690))
  IN <<v1, v2, v3, v4>>[4]

\* ------------------------------------------------------------------------
\* sinowealth::Phy (wire mode manager)
\* ------------------------------------------------------------------------

\* assignment to _mode
set_mode(m, v) ==
  [m EXCEPT !.mode = v, !.mlog = Append(@, v), !.mpos = Append(@, Len(m.log))]

\* ::tck, ::tms, ::tdi of phy.cpp
sw_tck(m, state) == write_port(m, "TCK", state)
sw_tms(m, state) == write_port(m, "TMS", state)
sw_tdi(m, state) == write_port(m, "TDI", state)

\* one pin of gpio_early_setup: direction bit, then PORT bit
early_pin(m, pin) == write_port(set_ddr(m, pin, FALSE), pin, FALSE)

\* gpio_early_setup
gpio_early_setup(m) ==
  early_pin(early_pin(early_pin(early_pin(early_pin(m,
    "VREF"), "TCK"), "TMS"), "TDI"), "TDO")

\* `for (n = 0; n < count; ++n) { pin(false); pin(true); }`
\* the run is logged as one entry <<pin, "toggle", count>>
toggle(m, pin, count) ==
  [m EXCEPT !.port[pin] = IF count > 0 THEN TRUE ELSE @,
            !.log = Append(@, <<pin, "toggle", count>>)]

\* the evaluation of `!::vref()` that finds VREF high
vref_high(m) == [m EXCEPT !.log = Append(@, <<"VREF", TRUE, 1>>)]

\* the magic sequence toggling TDI before TMS
magic_sequence_swapped(m) ==
  set_mode(sw_tms(
    toggle(toggle(toggle(toggle(
      sw_tck(sw_tck(
        sw_tms(sw_tdi(sw_tck(SimplePhy_init(m), TRUE), TRUE), TRUE),
        FALSE), TRUE),
      "TDI", 105), "TMS", 165), "TCK", 90), "TMS", 25600),
    FALSE), READY)

\* the magic sequence with an 8-bit counter in its last loop
magic_sequence_short(m) ==
  set_mode(sw_tms(
    toggle(toggle(toggle(toggle(
      sw_tck(sw_tck(
        sw_tms(sw_tdi(sw_tck(SimplePhy_init(m), TRUE), TRUE), TRUE),
        FALSE), TRUE),
      "TMS", 165), "TDI", 105), "TCK", 90), "TMS", 25600 % 256),
    FALSE), READY)

\* Phy::init from `SimpleJTAG::Phy::init()` on: outputs enabled, magic sequence
magic_sequence(m) ==
  set_mode(sw_tms(
    toggle(toggle(toggle(toggle(
      sw_tck(sw_tck(
        sw_tms(sw_tdi(sw_tck(SimplePhy_init(m), TRUE), TRUE), TRUE),
        FALSE), TRUE),
      "TMS", 165), "TDI", 105), "TCK", 90), "TMS", 25600),
    FALSE), READY)

\* Phy::stop
Phy_stop(m) == set_mode(SimplePhy_stop(m), NOT_INITIALIZED)

\* Phy::reset clocking 8 times on the JTAG branch
Phy_reset_short(m) ==
  CASE m.mode = JTAG ->
         set_mode(sw_tms(sw_tck(clock_ones(m, 8), TRUE), FALSE), READY)
    [] m.mode = ICP ->
         set_mode(sw_tms(sw_tms(sw_tck(m, TRUE), TRUE), FALSE), READY)
    [] OTHER -> m

\* Phy::reset without `_mode = Mode::READY` on the JTAG branch
Phy_reset_nomode(m) ==
  CASE m.mode = JTAG ->
         sw_tms(sw_tck(clock_ones(m, 35), TRUE), FALSE)
    [] m.mode = ICP ->
         set_mode(sw_tms(sw_tms(sw_tck(m, TRUE), TRUE), FALSE), READY)
    [] OTHER -> m

\* Phy::reset; the value returned is the resulting _mode
Phy_reset(m) ==
  CASE m.mode = JTAG ->
         set_mode(sw_tms(sw_tck(clock_ones(m, 35), TRUE), FALSE), READY)
    [] m.mode = ICP ->
         set_mode(sw_tms(sw_tms(sw_tck(m, TRUE), TRUE), FALSE), READY)
    [] OTHER -> m

\* Phy::mode(Mode) without the early return
Phy_mode_noguard(m, new) ==
  set_mode(stream_bits(IF m.mode # READY THEN Phy_reset(m) ELSE m,
                       10, FALSE, ToBits(new)), new)

\* Phy::mode(Mode) sending the bit-reversed byte and two extra clocks
Phy_mode_reversed(m, new) ==
  IF m.mode = new \/ m.mode = NOT_INITIALIZED THEN m
  ELSE set_mode(Phy_next_state(Phy_next_state(
         stream_bits(IF m.mode # READY THEN Phy_reset(m) ELSE m,
                     8, FALSE, ToBits(bit_reverse_8(new))),
         FALSE), FALSE), new)

\* Phy::mode(Mode); the value returned is the resulting _mode
\* mode() without `if (_mode != Mode::READY) reset()`
Phy_mode_noreset(m, new) ==
  IF m.mode = new \/ m.mode = NOT_INITIALIZED THEN m
  ELSE set_mode(stream_bits(m, 10, FALSE, ToBits(new)), new)

Phy_mode(m, new) ==
  IF m.mode = new \/ m.mode = NOT_INITIALIZED THEN m
  ELSE set_mode(stream_bits(IF m.mode # READY THEN Phy_reset(m) ELSE m,
                            10, FALSE, ToBits(new)), new)

\* ------------------------------------------------------------------------
\* sinowealth::Tap (JTAG target layer)
\* ------------------------------------------------------------------------

\* Tap::InstructionSet
CODESCAN == 0
DEBUG == 2
CONFIG == 3
HALT == 12

\* DebugDR
DebugDR_HALT == 1
DebugDR_ENABLE == 4

\* ConfigAddr, DebugCtrlData
DEBUG_CTRL == 64
SUBSYS_ENABLE == 12288
DBGEN_FULL == 8192
CLEAR == 0

\* CodescanDR::READ
CodescanDR_READ == 4

\* Status
OK == 0
ERR_IDCODE == 1
ERR_FLASH_TIMEOUT == 2

\* ConfigDR::operator uint32_t
ConfigDR_pack(data, address) == BitOr(Shl(address, 16), data)

\* CodescanDR::operator uint32_t without `>> 2` on the control field
CodescanDR_pack_noshift(address, ctrl, data) ==
  BitOr(BitOr(bit_reverse_16(address),
              Shl(bit_reverse_8(ctrl), 16)),
        Shl(bit_reverse_8(data), 22))

\* CodescanDR::operator uint32_t
CodescanDR_pack(address, ctrl, data) ==
  BitOr(BitOr(bit_reverse_16(address),
              Shl(Shr(bit_reverse_8(ctrl), 2), 16)),
        Shl(bit_reverse_8(data), 22))

\* from_raw taking the data byte one bit too low, from bits [28:21]
CodescanDR_data_low(raw) == bit_reverse_8(BitAnd(Shr(raw, 21), 255))

\* CodescanDR::from_raw(raw).data
CodescanDR_data(raw) == bit_reverse_8(BitAnd(Shr(raw, 22), 255))

\* Tap::config_write without its idle clock
config_write_noidle(m, addr, data) ==
  Body(m, << <<"DR", 23, ToBits(ConfigDR_pack(data, addr))>> >>)

\* Tap::config_write
config_write(m, addr, data) ==
  Body(m, << <<"DR", 23, ToBits(ConfigDR_pack(data, addr))>>,
             <<"idle_clocks", 1>> >>)

\* Tap::opcode_inject
opcode_inject(m, opcode) == DR(m, 8, ToBits(bit_reverse_8(opcode)))

\* Tap::read_idcode: the id is returned in ret
read_idcode(m) ==
  Body(m, << <<"IR", ToBits(IDCODE)>>,
             <<"DR", 16, {}>>,
             <<"return capture">> >>)

\* sfr_addrs of Tap::init
sfr_addrs == <<99, 103, 107, 111, 115, 119, 123, 127>>

\* `for (i = 0; i < sizeof(sfr_addrs); ++i) config_write(sfr_addrs[i], 0)`
\* (sfr_addrs[i] of the code is sfr_addrs[i + 1] here)
clear_sfrs ==
  [k \in 1..Len(sfr_addrs) |-> <<"config_write", sfr_addrs[k], 0>>]

\* the IDCODE check of Tap::init rejecting 0x0000 only
init_status_zero(m) ==
  [m EXCEPT !.ret = IF m.ret = 0 THEN ERR_IDCODE ELSE OK]

\* `if (id == 0x0000 || id == 0xFFFF) return ERR_IDCODE; return OK;`
init_status(m) ==
  [m EXCEPT !.ret = IF m.ret = 0 \/ m.ret = 65535 THEN ERR_IDCODE ELSE OK]

\* sinowealth::Tap::init; the Status is returned in ret
Tap_init(m) ==
  Body(m,
    << <<"goto_state", RunTestIdle>>,
       <<"idle_clocks", 2>>,
       \* Step 1: enable the debug interface
       <<"IR", ToBits(DEBUG)>>,
       <<"DR", 4, ToBits(DebugDR_ENABLE)>>,
       <<"idle_clocks", 1>>,
       \* Step 2: CONFIG register initialization
       <<"IR", ToBits(CONFIG)>>,
       <<"config_write", DEBUG_CTRL, SUBSYS_ENABLE>>,
       <<"config_write", DEBUG_CTRL, DBGEN_FULL>>,
       <<"config_write", DEBUG_CTRL, CLEAR>> >>
    \* Step 3: clear the target SFRs
    \o clear_sfrs \o
    \* Step 4: halt the CPU
    << <<"IR", ToBits(DEBUG)>>,
       <<"DR", 4, ToBits(DebugDR_HALT)>>,
       <<"idle_clocks", 1>>,
       <<"IR", ToBits(HALT)>>,
       \* Step 5: enable flash debug access
       <<"opcode_inject", 117>>,
       <<"opcode_inject", 255>>,
       <<"opcode_inject", 128>>,
       \* Step 6: verify IDCODE
       <<"read_idcode">>,
       <<"return Status">> >>)

\* exit that does what its doc comment says: sinowealth::Phy::reset()
Tap_exit_phy(m) == Phy_reset(m)

\* sinowealth::Tap::exit
Tap_exit(m) == Tap_reset(m)

\* `return CodescanDR::from_raw(raw).data`
from_raw_data(m) == [m EXCEPT !.ret = CodescanDR_data(FromBits(m.cap))]

\* Tap::codescan_read: the data byte is returned in ret
codescan_read(m, address) ==
  from_raw_data(
    DR(IR(m, ToBits(CODESCAN)), 30,
       ToBits(CodescanDR_pack(address, CodescanDR_READ, 0))))

\* ------------------------------------------------------------------------
\* jtag::flash::Iterator
\* ------------------------------------------------------------------------

\* jtag::flash::detail::reverse16
reverse16(v0) ==
  LET v1 == BitOr(BitAnd(Shr(v0, 8), 255), BitAnd(Shl(v0, 8), 65280))
      v2 == BitOr(BitAnd(Shr(v1, 4), 3855), BitAnd(Shl(v1, 4), 61680))
      v3 == BitOr(BitAnd(Shr(v2, 2), 13107), BitAnd(Shl(v2, 2), 52428))
      v4 == BitOr(BitAnd(Shr(v3, 1), 21845), BitAnd(Shl(v3, 1), 43690))
  IN <<v1, v2, v3, v4>>[4]

\* jtag::flash::detail::reverse8
reverse8(v0) ==
  LET v1 == BitOr(BitAnd(Shr(v0, 4), 15), BitAnd(Shl(v0, 4), 240))
      v2 == BitOr(BitAnd(Shr(v1, 2), 51), BitAnd(Shl(v1, 2), 204))
      v3 == BitOr(BitAnd(Shr(v2, 1), 85), BitAnd(Shl(v2, 1), 170))
  IN <<v1, v2, v3>>[3]

\* Iterator::read_next on the iterator it = [m, addr_, data_], m being the
\* machine its tap_ drives: one 30-bit DR scan of reverse16(addr_) with the
\* control bits 0b001000 above it, two idle clocks, the byte taken from
\* bits [29:22] of the value read, and ++addr_ in uint16_t
Iterator_read_next(it) ==
  LET dr_out  == BitOr(reverse16(it.addr_), Shl(8, 16))
      scanned == DR(it.m, 30, ToBits(dr_out))
      dr_in   == FromBits(scanned.cap)
  IN [m     |-> idle_clocks(scanned, 2),
      addr_ |-> (it.addr_ + 1) % 65536,
      data_ |-> reverse8(BitAnd(Shr(dr_in, 22), 255))]

\* jtag::flash::start: IR(0), then read_next twice
flash_start(m, addr) ==
  Iterator_read_next(
    Iterator_read_next([m |-> IR(m, ToBits(0)), addr_ |-> addr, data_ |-> 0]))

\* Iterator::operator*
Iterator_deref(it) == it.data_

\* Iterator::address: `addr_ - 1` converted to uint16_t
Iterator_address(it) == (it.addr_ - 1) % 65536

\* ------------------------------------------------------------------------
\* sinowealth::ICP
\* ------------------------------------------------------------------------

\* ICP::CommandSet
SET_IB_OFFSET_L == 64
SET_IB_OFFSET_H == 65
SET_IB_DATA == 66
GET_IB_OFFSET == 67
READ_FLASH == 68
PING == 73
WRITE_UNLOCK == 110
ERASE_UNLOCK == 230
PREAMBLE == <<21, 10, 9, 6>>
WRITE_TERM == <<0, 170, 0, 0>>

\* send_byte without the bit reversal: bit 0 goes out first
send_byte_lsb(m, byte) ==
  Body(m, << <<"stream_bits", 8, FALSE, ToBits(byte)>>,
             <<"Phy::next_state", FALSE>> >>)

\* ICP::send_byte
send_byte(m, byte) ==
  Body(m, << <<"stream_bits", 8, FALSE, ToBits(bit_reverse_8(byte))>>,
             <<"Phy::next_state", FALSE>> >>)

\* ICP::receive_byte: the byte returned is appended to buf
receive_byte(m) ==
  Body(m, << <<"stream_bits", 8, FALSE, {}>>,
             <<"Phy::next_state", FALSE>>,
             <<"return byte">> >>)

\* `for (auto b : bytes) send_byte(b)`
send_bytes(bytes) == [k \in 1..Len(bytes) |-> <<"send_byte", bytes[k]>>]

\* ICP::ping
ping(m) == Body(m, << <<"send_byte", PING>>, <<"send_byte", 255>> >>)

\* ICP::init
ICP_init(m) == ping(m)

\* ICP::set_address
set_address(m, address) ==
  Body(m, << <<"send_byte", SET_IB_OFFSET_L>>,
             <<"send_byte", BitAnd(address, 255)>>,
             <<"send_byte", SET_IB_OFFSET_H>>,
             <<"send_byte", BitAnd(Shr(address, 8), 255)>> >>)

\* verify that does not receive the high byte
verify_one_byte(m) ==
  Body([m EXCEPT !.buf = <<>>],
       << <<"set_address", 65385>>,
          <<"send_byte", GET_IB_OFFSET>>,
          <<"receive_byte">>,
          <<"return b == 0x69">> >>)

\* ICP::verify: the result is returned in ret
verify(m) ==
  Body([m EXCEPT !.buf = <<>>],
       << <<"set_address", 65385>>,
          <<"send_byte", GET_IB_OFFSET>>,
          <<"receive_byte">>,
          <<"receive_byte">>,
          <<"return b == 0x69">> >>)

\* `for (n = 0; n < size; ++n) buffer[n] = receive_byte()`
receive_bytes(size) == [k \in 1..size |-> <<"receive_byte">>]

\* ICP::read_flash: the buffer is left in buf
read_flash(m, address, size) ==
  Body([m EXCEPT !.buf = <<>>],
       << <<"set_address", address>>,
          <<"send_byte", READ_FLASH>> >>
       \o receive_bytes(size))

\* the loop of write_flash without the 0x00 sent after each data byte
send_data_nopad(buffer) ==
  [k \in 1..(Len(buffer) - 1) |-> <<"send_byte", buffer[k + 1]>>]

\* `for (n = 1; n < size; ++n) { send_byte(buffer[n]); send_byte(0x00); }`
\* (the sequence `buffer` starts at index 1: buffer[n] of the code is
\* buffer[n + 1] here; calls 2n - 1 and 2n are those of pass n)
send_data_pairs(buffer) ==
  [k \in 1..(2 * (Len(buffer) - 1)) |->
     IF k % 2 = 1 THEN <<"send_byte", buffer[(k + 1) \div 2 + 1]>>
                  ELSE <<"send_byte", 0>>]

\* ICP::write_flash: the result is returned in ret
write_flash(m, address, buffer) ==
  IF Len(buffer) = 0 THEN [m EXCEPT !.ret = FALSE]
  ELSE [Body(m,
          << <<"set_address", address>>,
             <<"send_byte", SET_IB_DATA>>,
             <<"send_byte", buffer[1]>>,
             <<"send_byte", WRITE_UNLOCK>> >>
          \o send_bytes(PREAMBLE)
          \o send_data_pairs(buffer)
          \o send_bytes(WRITE_TERM))
        EXCEPT !.ret = TRUE]

\* erase_flash reading the status after the last byte instead of before it
erase_flash_late(m, address) ==
  Body(m,
    << <<"set_address", address>>,
       <<"send_byte", SET_IB_DATA>>,
       <<"send_byte", 0>>,
       <<"send_byte", ERASE_UNLOCK>> >>
    \o send_bytes(PREAMBLE) \o
    << <<"send_byte", 0>>,
       <<"send_byte", 0>>,
       <<"send_byte", 0>>,
       <<"status = read_pin">> >>)

\* ICP::erase_flash: the sampled TDO level is returned in ret
erase_flash(m, address) ==
  Body(m,
    << <<"set_address", address>>,
       <<"send_byte", SET_IB_DATA>>,
       <<"send_byte", 0>>,
       <<"send_byte", ERASE_UNLOCK>> >>
    \o send_bytes(PREAMBLE) \o
    << <<"send_byte", 0>>,
       <<"send_byte", 0>>,
       <<"status = read_pin">>,
       <<"send_byte", 0>> >>)

\* ------------------------------------------------------------------------
\* Calls
\* ------------------------------------------------------------------------

\* the call c run on the machine m
Exec(m, c) ==
  CASE c[1] = "Phy::next_state"  -> Phy_next_state(m, c[2])
    [] c[1] = "stream_bits pass" -> stream_loop(m, c[2], c[3], c[4])
    [] c[1] = "stream_bits"      -> stream_bits(m, c[2], c[3], c[4])
    [] c[1] = "step"             -> step(m, c[2])
    [] c[1] = "state_ ="         -> [m EXCEPT !.state_ = c[2]]
    [] c[1] = "goto_state"       -> goto_state(m, c[2])
    [] c[1] = "idle_clocks"      -> idle_clocks(m, c[2])
    [] c[1] = "IR"               -> IR(m, c[2])
    [] c[1] = "DR"               -> DR(m, c[2], c[3])
    [] c[1] = "config_write"     -> config_write(m, c[2], c[3])
    [] c[1] = "opcode_inject"    -> opcode_inject(m, c[2])
    [] c[1] = "read_idcode"      -> read_idcode(m)
    [] c[1] = "return capture"   -> [m EXCEPT !.ret = FromBits(m.cap)]
    [] c[1] = "return Status"    -> init_status(m)
    [] c[1] = "send_byte"        -> send_byte(m, c[2])
    [] c[1] = "receive_byte"     -> receive_byte(m)
    [] c[1] = "return byte"      -> [m EXCEPT !.buf = Append(@, FromBits(m.cap))]
    [] c[1] = "set_address"      -> set_address(m, c[2])
    [] c[1] = "return b == 0x69" -> [m EXCEPT !.ret = (m.buf[1] = 105)]
    [] c[1] = "status = read_pin" ->
         [m EXCEPT !.ret = read_pin(m),
                   !.log = Append(@, <<"TDO", read_pin(m)>>)]

\* ------------------------------------------------------------------------
\* State
\* ------------------------------------------------------------------------
VARIABLES
  mode,    \* sinowealth::Phy::_mode
  state_,  \* SimpleJTAG::Tap::state_
  ddr,     \* direction bit of each pin
  port,    \* PORT bit of each pin
  led,     \* PB5: direction bit and PORT bit
  count,   \* poll counter of Phy::init while it waits for VREF
  hw,      \* TAP state of the target
  pc,      \* "idle": waiting for a call, "wait_vref": inside Phy::init,
           \* "done": a call has returned and its record is available
  log,     \* pin writes, TDO samples and VREF polls of the current call
  clk,     \* TCK pulses of the current call
  mlog,    \* values held by _mode during the current call
  mpos,    \* position in log of each assignment to _mode
  magic,   \* the magic sequence has been emitted since power-on
  recov,   \* how much of `tap_init fails; phy_reset; phy_init` the last
           \* commands make up
  call,    \* the current call: name, arguments, result, state before it
  fin,     \* inputs drawn for a pure function
  fout     \* its result

vars == <<mode, state_, ddr, port, led, count, hw, pc, log, clk, mlog, mpos,
          magic, recov, call, fin, fout>>

progVars == <<mode, state_, ddr, port, led, count, hw, pc, log, clk, mlog, mpos,
              magic, recov, call>>

NoCall == [op |-> "none"]
NoResult == [kind |-> "none"]
NoInput == [from |-> 0, to |-> 0, tms |-> FALSE]

\* the machine at the start of a call, the target driving TDO with pattern t
Fresh(t) ==
  [ mode |-> mode, state_ |-> state_, ddr |-> ddr, port |-> port, hw |-> hw,
    tdo |-> t, log |-> <<>>, clk |-> <<>>, mlog |-> <<mode>>, mpos |-> <<0>>,
    cap |-> {}, out |-> {}, buf |-> <<>>, ret |-> "void", sim |-> NoSim ]

\* the machine in the middle of a call
Cont(t) ==
  [ mode |-> mode, state_ |-> state_, ddr |-> ddr, port |-> port, hw |-> hw,
    tdo |-> t, log |-> log, clk |-> clk, mlog |-> mlog, mpos |-> mpos,
    cap |-> {}, out |-> {}, buf |-> <<>>, ret |-> "void", sim |-> NoSim ]

\* the state before the current call
Snapshot ==
  [ mode |-> mode, state_ |-> state_, ddr |-> ddr, port |-> port, hw |-> hw,
    led |-> led ]

Commit(m) ==
  /\ mode' = m.mode
  /\ state_' = m.state_
  /\ ddr' = m.ddr
  /\ port' = m.port
  /\ hw' = m.hw
  /\ log' = m.log
  /\ clk' = m.clk
  /\ mlog' = m.mlog
  /\ mpos' = m.mpos

\* the value a call returns to its caller, read from the machine it leaves
Result(m, what) ==
  CASE what = "void"            -> "void"
    [] what = "ret"             -> m.ret
    [] what = "_mode"           -> m.mode
    [] what = "_mode == READY"  -> m.mode = READY
    [] what = "state_"          -> m.state_
    [] what = "capture"         -> m.cap
    [] what = "capture value"   -> FromBits(m.cap)
    [] what = "buffer"          -> m.buf

\* the commands `tap_init` (failing with ERR_IDCODE), `phy_reset`, `phy_init`
\* in a row: what the command `name` returning `ret` adds to the part `r` of
\* that sequence seen so far
Recovery(r, name, ret) ==
  CASE name = "tap_init" /\ ret = ERR_IDCODE           -> "tap_init failed"
    [] name = "phy_reset" /\ r = "tap_init failed"     -> "phy_reset"
    [] name = "phy_init" /\ r = "phy_reset"            -> "phy_init"
    [] OTHER                                           -> "none"

\* a call that runs to completion in one step
Finish(name, arg, m, ret) ==
  /\ pc = "idle"
  /\ Commit(m)
  /\ pc' = "done"
  /\ call' = [op |-> name, arg |-> arg, ret |-> Result(m, ret), buf |-> m.buf,
              pre |-> Snapshot]
  /\ recov' = Recovery(recov, name, Result(m, ret))
  /\ UNCHANGED <<led, count, magic, fin, fout>>

\* state after construction of _phy, _tap, _icp; the pins are inputs after
\* reset of the host and the target TAP is in Test-Logic-Reset after power-on
InitMachine ==
  /\ mode = NOT_INITIALIZED
  /\ state_ = TestLogicReset
  /\ ddr = [p \in Pins |-> FALSE]
  /\ port = [p \in Pins |-> FALSE]
  /\ led = [ddr |-> FALSE, port |-> FALSE]
  /\ count = 0
  /\ hw = TestLogicReset
  /\ pc = "idle"
  /\ log = <<>>
  /\ clk = <<>>
  /\ mlog = <<>>
  /\ mpos = <<>>
  /\ magic = FALSE
  /\ recov = "none"
  /\ call = NoCall

\* the caller takes the result; the next call starts with an empty record
Return ==
  /\ pc = "done"
  /\ pc' = "idle"
  /\ log' = <<>>
  /\ clk' = <<>>
  /\ mlog' = <<>>
  /\ mpos' = <<>>
  /\ call' = NoCall
  /\ UNCHANGED <<mode, state_, ddr, port, led, count, hw, magic, recov, fin,
                 fout>>

\* ------------------------------------------------------------------------
\* sinowealth::Phy API
\* ------------------------------------------------------------------------

\* most runs of low VREF polls within one wait of Phy::init
MaxPolls == 2

\* lengths of the runs of consecutive polls that find VREF low
PollRuns == {1, 255}

\* Phy::init without `if (_mode != Mode::NOT_INITIALIZED) return;`
InitCall_noguard(name, wait_vref) ==
  /\ pc = "idle"
  /\ call' = [op |-> name, arg |-> <<wait_vref>>, ret |-> "void", buf |-> <<>>,
              pre |-> Snapshot, polls |-> 0]
  /\ recov' = Recovery(recov, name, "void")
  /\ UNCHANGED <<fin, fout>>
  /\ IF wait_vref
       THEN /\ Commit(gpio_early_setup(Fresh("zeros")))
            /\ led' = [led EXCEPT !.ddr = TRUE]
            /\ count' = 0
            /\ pc' = "wait_vref"
            /\ UNCHANGED magic
       ELSE /\ Commit(magic_sequence(gpio_early_setup(Fresh("zeros"))))
            /\ pc' = "done"
            /\ magic' = TRUE
            /\ UNCHANGED <<led, count>>

\* Phy::init returning only after gpio_early_setup when already initialized
InitCall_resetpins(name, wait_vref) ==
  /\ pc = "idle"
  /\ call' = [op |-> name, arg |-> <<wait_vref>>, ret |-> "void", buf |-> <<>>,
              pre |-> Snapshot, polls |-> 0]
  /\ recov' = Recovery(recov, name, "void")
  /\ UNCHANGED <<fin, fout>>
  /\ IF mode # NOT_INITIALIZED
       THEN /\ Commit(gpio_early_setup(Fresh("zeros")))
            /\ pc' = "done"
            /\ UNCHANGED <<led, count, magic>>
       ELSE IF wait_vref
              THEN /\ Commit(gpio_early_setup(Fresh("zeros")))
                   /\ led' = [led EXCEPT !.ddr = TRUE]
                   /\ count' = 0
                   /\ pc' = "wait_vref"
                   /\ UNCHANGED magic
              ELSE /\ Commit(magic_sequence(gpio_early_setup(Fresh("zeros"))))
                   /\ pc' = "done"
                   /\ magic' = TRUE
                   /\ UNCHANGED <<led, count>>

\* Phy::init(wait_vref) up to the VREF wait loop, or to the end without it
InitCall(name, wait_vref) ==
  /\ pc = "idle"
  /\ call' = [op |-> name, arg |-> <<wait_vref>>, ret |-> "void", buf |-> <<>>,
              pre |-> Snapshot, polls |-> 0]
  /\ recov' = Recovery(recov, name, "void")
  /\ UNCHANGED <<fin, fout>>
  /\ IF mode # NOT_INITIALIZED
       THEN /\ Commit(Fresh("zeros"))
            /\ pc' = "done"
            /\ UNCHANGED <<led, count, magic>>
       ELSE IF wait_vref
              THEN /\ Commit(gpio_early_setup(Fresh("zeros")))
                   /\ led' = [led EXCEPT !.ddr = TRUE]
                   /\ count' = 0
                   /\ pc' = "wait_vref"
                   /\ UNCHANGED magic
              ELSE /\ Commit(magic_sequence(gpio_early_setup(Fresh("zeros"))))
                   /\ pc' = "done"
                   /\ magic' = TRUE
                   /\ UNCHANGED <<led, count>>

\* a wait loop that gives up: after k polls that find VREF low it goes on
\* with the rest of Phy::init
PollLow_giveup(k) ==
  /\ pc = "wait_vref"
  /\ led' = [led EXCEPT !.port = FALSE]
  /\ count' = 0
  /\ Commit(magic_sequence(
       [Cont("zeros") EXCEPT !.log = Append(@, <<"VREF", FALSE, k>>)]))
  /\ pc' = "done"
  /\ magic' = TRUE
  /\ UNCHANGED <<recov, call, fin, fout>>

\* k evaluations of `while (!::vref())` that find VREF low: `++count == 0`
\* toggles the LED each time the 8-bit counter wraps
PollLow(k) ==
  /\ pc = "wait_vref"
  /\ call.polls < MaxPolls
  /\ count' = (count + k) % 256
  /\ led' = IF ((count + k) \div 256) % 2 = 1 THEN [led EXCEPT !.port = ~@] ELSE led
  /\ call' = [call EXCEPT !.polls = @ + 1]
  /\ log' = Append(log, <<"VREF", FALSE, k>>)
  /\ UNCHANGED <<mode, state_, ddr, port, hw, pc, clk, mlog, mpos, magic, recov,
                 fin, fout>>

\* the evaluation of `while (!::vref())` that finds VREF high, and the rest
\* of Phy::init
PollHigh ==
  /\ pc = "wait_vref"
  /\ led' = [led EXCEPT !.port = FALSE]
  /\ count' = 0
  /\ Commit(magic_sequence(vref_high(Cont("zeros"))))
  /\ pc' = "done"
  /\ magic' = TRUE
  /\ UNCHANGED <<recov, call, fin, fout>>

\* the VREF wait loop of Phy::init
PollVref == PollHigh \/ \E k \in PollRuns : PollLow(k)

PhyInit == \E w \in BOOLEAN : InitCall("init", w)

PhyStop == Finish("stop", <<>>,
      Phy_stop(Fresh("zeros")),
      "void")

PhyMode ==
  \E nm \in Modes, tp \in TdoPatterns :
    Finish("mode", <<nm>>,
      Phy_mode(Fresh(tp), nm),
      "_mode")

PhyReset == Finish("reset", <<>>,
      Phy_reset(Fresh("zeros")),
      "_mode")

NextPhy == PhyInit \/ PollVref \/ PhyStop \/ PhyMode \/ PhyReset \/ Return

InitPhy == InitMachine /\ fin = NoInput /\ fout = NoResult

SpecPhy == InitPhy /\ [][NextPhy]_vars

\* ------------------------------------------------------------------------
\* SimpleJTAG::Tap API
\* ------------------------------------------------------------------------

\* values shifted out by the scans of the model
ScanOuts == {{}, ToBits(165)}
IrOuts == {ToBits(0), ToBits(14)}

\* DR<bits> instantiations
DrWidths == {1, 4, 8, 16, 23, 30, 32}

TapReset == Finish("Tap::reset", <<>>,
      Tap_reset(Fresh("zeros")),
      "void")

TapGotoState ==
  \E tg \in States :
    Finish("Tap::goto_state", <<tg>>,
      goto_state(Fresh("zeros"), tg),
      "void")

TapIR ==
  \E o \in IrOuts, tp \in TdoPatterns :
    Finish("Tap::IR", <<o>>,
      IR(Fresh(tp), o),
      "capture")

TapDR ==
  \E w \in DrWidths, o \in ScanOuts, tp \in TdoPatterns :
    Finish("Tap::DR", <<w, o>>,
      DR(Fresh(tp), w, o),
      "capture")

TapIdleClocks ==
  \E n \in 0..MaxIdle :
    Finish("Tap::idle_clocks", <<n>>,
      idle_clocks(Fresh("zeros"), n),
      "void")

TapBypass == Finish("Tap::bypass", <<>>,
      bypass(Fresh("zeros")),
      "void")

TapIdcode ==
  \E tp \in TdoPatterns :
    Finish("Tap::idcode", <<>>,
      idcode(Fresh(tp)),
      "capture")

\* sinowealth::Tap::exit
TapExit == Finish("Tap::exit", <<>>,
      Tap_exit(Fresh("zeros")),
      "void")

\* sinowealth::Tap::init
TapInit ==
  \E tp \in TdoPatterns :
    Finish("sinowealth::Tap::init", <<>>, Tap_init(Fresh(tp)), "ret")

\* sinowealth::Tap::codescan_read
TapCodescanRead ==
  \E a \in {0, 4660}, tp \in ScanTdo :
    Finish("sinowealth::Tap::codescan_read", <<a>>,
      codescan_read(Fresh(tp), a), "ret")

\* sinowealth::Tap::read_idcode
TapReadIdcode ==
  \E tp \in TdoPatterns :
    Finish("sinowealth::Tap::read_idcode", <<>>, read_idcode(Fresh(tp)), "ret")

NextTap ==
  \/ TapReset \/ TapGotoState \/ TapIR \/ TapDR \/ TapIdleClocks
  \/ TapBypass \/ TapIdcode \/ TapExit
  \/ TapInit \/ TapCodescanRead \/ TapReadIdcode \/ Return

\* the machine once `init(false); mode(JTAG)` have run on the constructed
\* objects
JtagEntered ==
  LET c == [ mode |-> NOT_INITIALIZED, state_ |-> TestLogicReset,
             ddr |-> [p \in Pins |-> FALSE], port |-> [p \in Pins |-> FALSE],
             hw |-> TestLogicReset, tdo |-> "zeros", log |-> <<>>, clk |-> <<>>,
             mlog |-> <<>>, mpos |-> <<>>, cap |-> {}, out |-> {},
             buf |-> <<>>,
             ret |-> "void", sim |-> NoSim ]
  IN Phy_mode(magic_sequence(gpio_early_setup(c)), JTAG)

\* TAP controller in JTAG mode, tracked state and target TAP both in
\* Test-Logic-Reset
InitTap ==
  /\ mode = JtagEntered.mode
  /\ ddr = JtagEntered.ddr
  /\ port = JtagEntered.port
  /\ state_ = TestLogicReset
  /\ hw = TestLogicReset
  /\ led = [ddr |-> FALSE, port |-> FALSE]
  /\ count = 0
  /\ pc = "idle"
  /\ log = <<>>
  /\ clk = <<>>
  /\ mlog = <<>>
  /\ mpos = <<>>
  /\ magic = TRUE
  /\ recov = "none"
  /\ call = NoCall
  /\ fin = NoInput
  /\ fout = NoResult

SpecTap == InitTap /\ [][NextTap]_vars

\* ------------------------------------------------------------------------
\* RPC command surface (rpc.cpp)
\* ------------------------------------------------------------------------

\* longest buffer passed to icp_read / icp_write
MaxBuf == 2

\* arguments of the commands
Addresses == {4660}
BufBytes == {90}
Buffers == UNION {[1..n -> BufBytes] : n \in 0..MaxBuf}
DrBitsArgs == {4, 8, 16, 23, 30, 32, 0, 5, 33}
DrOuts == {ToBits(165)}
GotoTargets == {RunTestIdle, ShiftDR}

\* phy::init: _phy.init() with the default wait_vref = true
phy_init == InitCall("phy_init", TRUE)

\* phy::reset
phy_reset ==
  Finish("phy_reset", <<>>,
      Phy_reset(Fresh("zeros")),
      "_mode == READY")

\* phy::stop
phy_stop == Finish("phy_stop", <<>>,
      Phy_stop(Fresh("zeros")),
      "void")

\* tap::init
tap_init ==
  \E tp \in TdoPatterns :
    Finish("tap_init", <<>>,
      Tap_init(Phy_mode(Fresh(tp), JTAG)),
      "ret")

\* tap::state
tap_state == Finish("tap_state", <<>>, Fresh("zeros"), "state_")

\* tap::reset
tap_reset == Finish("tap_reset", <<>>,
      Tap_reset(Fresh("zeros")),
      "void")

\* tap::goto_state
tap_goto_state ==
  \E tg \in GotoTargets :
    Finish("tap_goto_state", <<tg>>,
      goto_state(Fresh("zeros"), tg),
      "void")

\* tap::ir
tap_ir ==
  \E o \in IrOuts, tp \in ScanTdo :
    Finish("tap_ir", <<o>>,
      IR(Fresh(tp), o),
      "capture value")

\* tap::dr scanning whatever width is passed
tap_dr_any ==
  \E w \in DrBitsArgs, o \in DrOuts, tp \in ScanTdo :
    Finish("tap_dr", <<w, o>>,
      IF w > 0 THEN DR(Fresh(tp), w, o) ELSE Fresh(tp),
      "capture")

\* tap::dr: `switch (bits)` with no scan in the default branch
tap_dr ==
  \E w \in DrBitsArgs, o \in DrOuts, tp \in ScanTdo :
    Finish("tap_dr", <<w, o>>,
      IF w \in {4, 8, 16, 23, 30, 32} THEN DR(Fresh(tp), w, o) ELSE Fresh(tp),
      "capture")

\* tap::bypass
tap_bypass == Finish("tap_bypass", <<>>,
      bypass(Fresh("zeros")),
      "void")

\* tap::idcode
tap_idcode ==
  \E tp \in ScanTdo :
    Finish("tap_idcode", <<>>,
      idcode(Fresh(tp)),
      "capture")

\* tap::idle_clocks
tap_idle_clocks ==
  \E n \in 0..MaxIdle :
    Finish("tap_idle_clocks", <<n>>,
      idle_clocks(Fresh("zeros"), n),
      "void")

\* tap::codescan_read
tap_codescan_read ==
  \E a \in Addresses, tp \in ScanTdo :
    Finish("tap_codescan_read", <<a>>,
      codescan_read(Fresh(tp), a),
      "ret")

\* tap::read_idcode
tap_read_idcode ==
  \E tp \in TdoPatterns :
    Finish("tap_read_idcode", <<>>,
      read_idcode(Fresh(tp)),
      "ret")

\* icp::init
icp_init ==
  Finish("icp_init", <<>>,
      ICP_init(Phy_mode(Fresh("zeros"), ICP)),
      "void")

\* icp::verify
icp_verify ==
  \E tp \in ScanTdo :
    Finish("icp_verify", <<>>,
      verify(Fresh(tp)),
      "ret")

\* first three statements of icp::read, icp::erase and icp::write
icp_enter(m) ==
  ICP_init(Phy_mode(IF m.mode # READY THEN Phy_reset(m) ELSE m, ICP))

\* icp::read; malloc returns a buffer (got) or a null pointer
icp_read ==
  \E a \in Addresses, n \in 0..MaxBuf, got \in BOOLEAN, tp \in ScanTdo :
    Finish("icp_read", <<a, n, got>>,
      IF got THEN Phy_reset(read_flash(icp_enter(Fresh(tp)), a, n))
             ELSE icp_enter(Fresh(tp)),
      "buffer")

\* icp::erase
icp_erase ==
  \E a \in Addresses, tp \in ScanTdo :
    Finish("icp_erase", <<a>>,
      Phy_reset(erase_flash(icp_enter(Fresh(tp)), a)),
      "ret")

\* icp::write
icp_write ==
  \E a \in Addresses, b \in Buffers :
    Finish("icp_write", <<a, b>>,
      Phy_reset(write_flash(icp_enter(Fresh("zeros")), a, b)),
      "ret")

Next ==
  \/ phy_init \/ PollVref \/ phy_reset \/ phy_stop
  \/ tap_init \/ tap_state \/ tap_reset \/ tap_goto_state \/ tap_ir \/ tap_dr
  \/ tap_bypass \/ tap_idcode \/ tap_idle_clocks \/ tap_codescan_read
  \/ tap_read_idcode
  \/ icp_init \/ icp_verify \/ icp_read \/ icp_erase \/ icp_write
  \/ Return

Init == InitMachine /\ fin = NoInput /\ fout = NoResult

Spec == Init /\ [][Next]_vars

\* ------------------------------------------------------------------------
\* Pure functions applied to drawn inputs
\* ------------------------------------------------------------------------
InitFsm ==
  /\ InitMachine
  /\ fin \in [from : States, to : States, tms : BOOLEAN]
  /\ fout = NoResult

ApplyNextState ==
  /\ fout = NoResult
  /\ fout' = [kind |-> "next_state", ns |-> next_state(fin.from, fin.tms)]
  /\ UNCHANGED <<fin, progVars>>

ApplyGotoSeq ==
  /\ fout = NoResult
  /\ fout' = [kind |-> "goto_state", seq |-> goto_seq(fin.from, fin.to)]
  /\ UNCHANGED <<fin, progVars>>

NextFsm == ApplyNextState \/ ApplyGotoSeq

SpecFsm == InitFsm /\ [][NextFsm]_vars

RECURSIVE RunTms(_, _)
\* state reached from s after applying the TMS levels of seq through next_state
RunTms(s, seq) ==
  IF seq = <<>> THEN s ELSE RunTms(next_state(s, Head(seq)), Tail(seq))

\* C1: for every TAP state s in 0..15 and every TMS level, next_state(s, tms)
\* is the entry of the IEEE 1149.1 transition table.
C1_FsmFidelity ==
  fout.kind = "next_state" =>
    fout.ns = Ieee1149Table[fin.from + 1][IF fin.tms THEN 2 ELSE 1]

C1_Witness ==
  fout.kind = "next_state" /\ fin.from = Exit2DR /\ ~fin.tms /\ fout.ns = ShiftDR

\* C2: the TMS sequence goto_state emits from `from` ends at `to` when applied
\* through next_state, no shorter sequence does, and it is empty when from = to.
C2_NavigationSound ==
  fout.kind = "goto_state" =>
    /\ RunTms(fin.from, fout.seq) = fin.to
    /\ \A n \in 0..(Len(fout.seq) - 1) :
         \A t \in [1..n -> BOOLEAN] : RunTms(fin.from, t) # fin.to
    /\ (fin.from = fin.to => fout.seq = <<>>)

C2_Witness ==
  /\ fout.kind = "goto_state"
  /\ fin.from = TestLogicReset /\ fin.to = ShiftDR
  /\ fout.seq = <<FALSE, TRUE, FALSE, FALSE>>

\* ------------------------------------------------------------------------
\* Wire traces of a call
\* ------------------------------------------------------------------------

\* TMS and TDI levels of the TCK pulses of the current call
TmsOf(c) == [i \in 1..Len(c) |-> c[i].tms]
TdiOf(c) == [i \in 1..Len(c) |-> c[i].tdi]

RECURSIVE RunTarget(_, _)
\* state of an IEEE 1149.1 TAP that starts in s and sees the TMS levels of seq
RunTarget(s, seq) ==
  IF seq = <<>> THEN s ELSE RunTarget(TargetTap(s, Head(seq)), Tail(seq))

\* the pulses of the current call are: a navigation from state pre that
\* arrives in state shift with its last pulse, n shift pulses with TMS high
\* only on the last, and one more pulse with TMS high
ScanShape(pre, shift, n) ==
  LET t == TmsOf(clk)
      k == Len(t) - (n + 1)
  IN /\ k >= 0
     /\ RunTarget(pre, SubSeq(t, 1, k)) = shift
     /\ \A j \in 0..(k - 1) : RunTarget(pre, SubSeq(t, 1, j)) # shift
     /\ \A i \in 1..n : t[k + i] = (i = n)
     /\ t[k + n + 1]

\* C3: after any sequence of TAP-controller operations (reset, goto_state, IR,
\* DR of any width, idle_clocks, bypass, idcode) that starts with the tracked
\* state equal to the state of the target TAP, the tracked state equals the
\* state of a target TAP that applies the IEEE 1149.1 transition on every TCK
\* pulse with the TMS level driven.
C3_TrackedMatchesTarget == state_ = hw

C3_Witness ==
  /\ pc = "done" /\ call.op = "Tap::DR" /\ call.arg[1] = 32
  /\ call.pre.state_ = PauseIR
  /\ Len(clk) = 38
  /\ state_ = UpdateDR /\ hw = UpdateDR

\* C4: an IR scan navigates to Shift-IR, shifts exactly IR_BITS = 4 bits with
\* TMS high only on the last, adds one pulse with TMS high and ends with the
\* tracked state Update-IR; a DR scan of N bits does the same through Shift-DR
\* and ends in Update-DR.
C4_ScanShape ==
  pc = "done" =>
    /\ call.op = "Tap::IR" =>
         ScanShape(call.pre.state_, ShiftIR, 4) /\ state_ = UpdateIR
    /\ call.op = "Tap::DR" =>
         ScanShape(call.pre.state_, ShiftDR, call.arg[1]) /\ state_ = UpdateDR

C4_Witness ==
  /\ pc = "done" /\ call.op = "Tap::IR"
  /\ call.pre.state_ = TestLogicReset
  /\ TmsOf(clk) = <<FALSE, TRUE, TRUE, FALSE, FALSE, FALSE, FALSE, FALSE, TRUE, TRUE>>
  /\ state_ = UpdateIR

\* commands of the surface that run TAP operations, and those that transfer
\* ICP bytes
TapCommands ==
  {"tap_init", "tap_reset", "tap_goto_state", "tap_ir", "tap_dr", "tap_bypass",
   "tap_idcode", "tap_idle_clocks", "tap_codescan_read", "tap_read_idcode"}
IcpCommands == {"icp_init", "icp_verify", "icp_read", "icp_erase", "icp_write"}

\* C5: every productive operation checks the wire mode before it transmits: a
\* TAP command pulses TCK only while the mode is Jtag, an ICP command only
\* after the mode has become Icp.
C5_ModeCheckedBeforeTransmit ==
  (pc = "done" /\ clk # <<>>) =>
    /\ call.op \in TapCommands => mode = JTAG
    /\ call.op \in IcpCommands => \E i \in 1..Len(mlog) : mlog[i] = ICP

\* a change of _mode from a to b that the mode manager is said to make
AllowedModeStep(a, b) ==
  \/ a = b
  \/ a = NOT_INITIALIZED /\ b = READY /\ call.op = "init"
  \/ a = READY /\ b \in {JTAG, ICP}
  \/ a \in {JTAG, ICP} /\ b = READY
  \/ b = NOT_INITIALIZED /\ call.op = "stop"

\* C6: across init, stop, mode(m) for every Mode value m, and reset, the mode
\* variable only goes NotInitialized -> Ready (init), Ready <-> Jtag,
\* Ready <-> Icp, and anything -> NotInitialized (stop only).
C6_ModeTransitions ==
  pc = "done" =>
    \A i \in 1..(Len(mlog) - 1) : AllowedModeStep(mlog[i], mlog[i + 1])

\* C7: mode(new) with new equal to the current mode, or with the current mode
\* NotInitialized, changes no pin and no state and returns the current mode;
\* after mode(m) the mode is m or NotInitialized, so that the second call of
\* `mode(m); mode(m)` puts nothing on the wire.
C7_ModeIdempotent ==
  (pc = "done" /\ call.op = "mode") =>
    /\ mode \in {call.arg[1], NOT_INITIALIZED}
    /\ (call.arg[1] = call.pre.mode \/ call.pre.mode = NOT_INITIALIZED) =>
         /\ log = <<>> /\ clk = <<>>
         /\ mode = call.pre.mode /\ state_ = call.pre.state_
         /\ ddr = call.pre.ddr /\ port = call.pre.port /\ hw = call.pre.hw
         /\ call.ret = call.pre.mode

C7_Witness ==
  /\ pc = "done" /\ call.op = "mode"
  /\ call.arg[1] = ICP /\ call.pre.mode = ICP
  /\ log = <<>> /\ call.ret = ICP

\* mode(m) entered from Ready with m Jtag or Icp
ModeEntry ==
  /\ pc = "done" /\ call.op = "mode"
  /\ call.pre.mode = READY /\ call.arg[1] \in {JTAG, ICP}

\* C8 as stated: entering mode m from Ready shifts the bit-reversed mode byte
\* LSB-first, so that the nominal byte appears MSB-first on TDI, in 8 pulses
\* with TMS low, then makes exactly two more pulses with TMS low, then sets
\* the mode to m.
C8_ModeByteMsbFirst ==
  ModeEntry =>
    /\ Len(clk) = 10
    /\ \A i \in 1..10 : ~clk[i].tms
    /\ \A i \in 1..8 : clk[i].tdi = (Bit(call.arg[1], 8 - i) = 1)
    /\ mode = call.arg[1]

\* C8 (amended): entering mode m from Ready shifts the mode byte itself
\* LSB-first, without bit reversal, in 8 pulses with TMS low, followed by
\* exactly two more pulses with TMS low and TDI low, then sets the mode to m.
C8_ModeByteLsbFirst ==
  ModeEntry =>
    /\ Len(clk) = 10
    /\ \A i \in 1..10 : ~clk[i].tms
    /\ \A i \in 1..8 : clk[i].tdi = (Bit(call.arg[1], i - 1) = 1)
    /\ ~clk[9].tdi /\ ~clk[10].tdi
    /\ mode = call.arg[1]

C8_Witness ==
  /\ ModeEntry /\ call.arg[1] = ICP /\ mode = ICP
  /\ TdiOf(clk) = <<TRUE, FALSE, FALSE, TRUE, FALSE, TRUE, TRUE, FALSE, FALSE, FALSE>>

\* C9: reset() from Jtag makes exactly 35 pulses with TMS high, then drives
\* TCK high and TMS low and sets the mode to Ready; from Icp it makes no pulse,
\* drives TCK high, TMS high, then TMS low, and sets the mode to Ready; from
\* Ready or NotInitialized it changes nothing; phy_reset returns true iff the
\* mode was not NotInitialized.
C9_ResetByMode ==
  (pc = "done" /\ call.op = "phy_reset") =>
    /\ call.ret = (call.pre.mode # NOT_INITIALIZED)
    /\ call.pre.mode = JTAG =>
         /\ Len(clk) = 35
         /\ \A i \in 1..35 : clk[i].tms
         /\ SubSeq(log, Len(log) - 1, Len(log)) = << <<"TCK", TRUE>>, <<"TMS", FALSE>> >>
         /\ port["TCK"] /\ ~port["TMS"]
         /\ mode = READY
    /\ call.pre.mode = ICP =>
         /\ clk = <<>>
         /\ log = << <<"TCK", TRUE>>, <<"TMS", TRUE>>, <<"TMS", FALSE>> >>
         /\ port["TCK"] /\ ~port["TMS"]
         /\ mode = READY
    /\ call.pre.mode \in {READY, NOT_INITIALIZED} =>
         /\ log = <<>> /\ clk = <<>>
         /\ mode = call.pre.mode /\ ddr = call.pre.ddr /\ port = call.pre.port

C9_Witness ==
  /\ pc = "done" /\ call.op = "phy_reset" /\ call.pre.mode = JTAG
  /\ Len(clk) = 35 /\ mode = READY /\ call.ret = TRUE

\* C10: reset() from Jtag drives its 35 pulses through the TAP controller, so
\* the tracked state is Test-Logic-Reset afterwards.
C10_ResetTracksTlr ==
  (pc = "done" /\ call.op = "phy_reset" /\ call.pre.mode = JTAG) =>
    state_ = TestLogicReset

\* ------------------------------------------------------------------------
\* Initialisation of the wire
\* ------------------------------------------------------------------------

\* calls of Phy::init
InitOps == {"init", "phy_init"}

\* the log l holds the last run of the magic sequence, 25600 TMS toggles
Emitted(l) ==
  \E i \in 1..Len(l) : Len(l[i]) = 3 /\ l[i][1] = "TMS" /\ l[i][3] = 25600

\* C11 as stated: over any sequence of commands the magic sequence is emitted
\* once: a step never emits it when it has been emitted before.
C11_MagicOnce ==
  [][(Emitted(log') /\ ~Emitted(log)) => ~magic]_vars

\* C11 (amended): the magic sequence is emitted by exactly the calls of init
\* that find the mode NotInitialized, as they complete, and such a call leaves
\* the mode Ready; so it is emitted again by the first init after each stop,
\* and never by a return to Ready from Jtag or Icp or by an init in the modes
\* Ready, Jtag and Icp.
C11_MagicPerInit ==
  [][(Emitted(log') /\ ~Emitted(log))
       <=> (/\ pc # "done" /\ pc' = "done"
            /\ call'.op \in InitOps
            /\ mode = NOT_INITIALIZED /\ mode' = READY)]_vars

C11_Witness ==
  /\ pc = "done" /\ call.op = "phy_init"
  /\ call.pre.led.ddr /\ call.pre.mode = NOT_INITIALIZED
  /\ magic /\ Emitted(log) /\ mode = READY

\* C12: init() called while the mode is Ready, Jtag or Icp returns without
\* changing a pin direction or level, without polling VREF and without
\* changing the mode.
C12_InitNoEffect ==
  (pc = "done" /\ call.op \in InitOps /\ call.pre.mode # NOT_INITIALIZED) =>
    /\ log = <<>> /\ clk = <<>> /\ call.polls = 0
    /\ mlog = <<call.pre.mode>> /\ mode = call.pre.mode
    /\ ddr = call.pre.ddr /\ port = call.pre.port /\ led = call.pre.led

C12_Witness ==
  /\ pc = "done" /\ call.op = "init" /\ call.arg = <<TRUE>>
  /\ call.pre.mode = JTAG /\ mode = JTAG /\ log = <<>>

\* the entries of the log that write a pin (a poll of VREF has three fields)
IsDrive(e) == ~(e[1] = "VREF" /\ Len(e) = 3)
DriveLog == SelectSeq(log, IsDrive)

\* the same pin write, or the same run of toggles
SameEntry(a, b) ==
  /\ Len(a) = Len(b)
  /\ a[1] = b[1]
  /\ a[2] = b[2]
  /\ Len(a) = 3 => a[3] = b[3]

SameLog(a, b) ==
  Len(a) = Len(b) /\ \A i \in 1..Len(a) : SameEntry(a[i], b[i])

\* pin writes of init before the magic sequence: all pins made inputs without
\* pull-up, then TCK, TMS, TDI made outputs (TCK low, TMS high, TDI low) and
\* the pull-up of TDO enabled
SetupWrites ==
  << <<"VREF", FALSE>>, <<"TCK", FALSE>>, <<"TMS", FALSE>>, <<"TDI", FALSE>>,
     <<"TDO", FALSE>>,
     <<"TDO", TRUE>>, <<"TCK", FALSE>>, <<"TMS", TRUE>>, <<"TDI", FALSE>> >>

\* the magic sequence as the claim lists it
MagicWrites ==
  << <<"TCK", TRUE>>, <<"TDI", TRUE>>, <<"TMS", TRUE>>,
     <<"TCK", FALSE>>, <<"TCK", TRUE>>,
     <<"TMS", "toggle", 165>>,
     <<"TDI", "toggle", 105>>,
     <<"TCK", "toggle", 90>>,
     <<"TMS", "toggle", 25600>>,
     <<"TMS", FALSE>> >>

\* a call of init that found the mode NotInitialized has returned
InitRan ==
  pc = "done" /\ call.op \in InitOps /\ call.pre.mode = NOT_INITIALIZED

\* C13: init() from NotInitialized, once the pins are set up as outputs,
\* drives them in exactly this order: TCK, TDI and TMS high; TCK low, TCK
\* high; 165 TMS low/high toggles; 105 TDI toggles; 90 TCK toggles; 25600 TMS
\* toggles; TMS low, which leaves TCK and TDI high; the mode is assigned once,
\* to Ready, after the last pin write.
C13_MagicOrder ==
  InitRan =>
    /\ SameLog(DriveLog, SetupWrites \o MagicWrites)
    /\ mlog = <<NOT_INITIALIZED, READY>>
    /\ mpos = <<0, Len(log)>>
    /\ mode = READY
    /\ ~port["TMS"] /\ port["TCK"] /\ port["TDI"]
    /\ ddr["TMS"] /\ ddr["TCK"] /\ ddr["TDI"] /\ ~ddr["TDO"]

C13_Witness ==
  /\ InitRan /\ call.op = "init" /\ call.arg = <<TRUE>> /\ call.polls = 2
  /\ Len(log) = 22 /\ log[Len(log)] = <<"TMS", FALSE>>
  /\ mode = READY

RECURSIVE Rises(_, _, _, _)
\* number of 0 -> 1 transitions of the PORT bit of pin made by the entries
\* i, i + 1, .. of the log l, the bit being `level` before them; every pass of
\* a toggle loop writes the bit low, then high
Rises(l, i, pin, level) ==
  IF i > Len(l) THEN 0
  ELSE IF l[i][1] # pin THEN Rises(l, i + 1, pin, level)
  ELSE IF Len(l[i]) = 3
         THEN l[i][3] + Rises(l, i + 1, pin, IF l[i][3] > 0 THEN TRUE ELSE level)
  ELSE (IF ~level /\ l[i][2] THEN 1 ELSE 0) + Rises(l, i + 1, pin, l[i][2])

\* init(wait_vref = false) has run from NotInitialized with all pins low
InitRanAllLow ==
  /\ InitRan /\ call.op = "init" /\ call.arg = <<FALSE>>
  /\ \A p \in Pins : ~call.pre.port[p]

\* C14 as stated: during init(wait_vref = false) started with all pins low
\* the TMS level makes 165 + 25600 = 25765 transitions from 0 to 1.
C14_TmsRises25765 ==
  InitRanAllLow => Rises(log, 1, "TMS", call.pre.port["TMS"]) = 25765

\* C14 (amended): during init(wait_vref = false) started from NotInitialized
\* with all pins low the TMS level makes 1 + 165 + 25600 = 25766 transitions
\* from 0 to 1: one when TMS is first driven high, then one per toggle.
C14_TmsRises25766 ==
  InitRanAllLow => Rises(log, 1, "TMS", call.pre.port["TMS"]) = 25766

C14_Witness ==
  /\ InitRanAllLow
  /\ Rises(log, 1, "TMS", FALSE) = 1 + 165 + 25600
  /\ Rises(SubSeq(log, 1, 9), 1, "TMS", FALSE) = 1

JtagPins == {"TCK", "TMS", "TDI", "TDO"}

\* C15: after any sequence of commands, whenever the mode is NotInitialized
\* the four JTAG pins are inputs with their pull-ups off.
C15_NotInitHighZ ==
  mode = NOT_INITIALIZED => \A p \in JtagPins : ~ddr[p] /\ ~port[p]

\* ------------------------------------------------------------------------
\* Initialisation of the target
\* ------------------------------------------------------------------------

\* the TDO samples of the current call that makes no write to the TDO port
IsSample(e) == e[1] = "TDO"
Samples == SelectSeq(log, IsSample)

\* the value of the last 16 TDO samples of the call, first sample = bit 0
IdRead ==
  FromBits({i \in 0..15 : Samples[Len(Samples) - 15 + i][2]})

\* C16: tap_init returns ERR_IDCODE (1) if and only if the 16-bit IDCODE read
\* at the end of the initialisation is 0x0000 or 0xFFFF, and OK (0) for every
\* other value; it never returns ERR_FLASH_TIMEOUT (2).
C16_InitStatus ==
  (pc = "done" /\ call.op = "tap_init") =>
    /\ call.ret = (IF IdRead = 0 \/ IdRead = 65535 THEN 1 ELSE 0)
    /\ call.ret # 2

C16_Witness ==
  /\ pc = "done" /\ call.op = "tap_init"
  /\ call.pre.mode = READY
  /\ IdRead \notin {0, 65535} /\ call.ret = 0

\* a TCK pulse with the TMS level tms and, if care, the TDI level tdi
Pulse(tms, care, tdi) == [tms |-> tms, care |-> care, tdi |-> tdi]

\* n clocks with TMS low
IdlePulses(n) == [i \in 1..n |-> Pulse(FALSE, FALSE, FALSE)]

\* pulses with the TMS levels t
NavPulses(t) == [i \in 1..Len(t) |-> Pulse(t[i], FALSE, FALSE)]

\* the n bits of v shifted LSB first, TMS high on the last
ShiftPulses(n, v) == [i \in 1..n |-> Pulse(i = n, TRUE, Bit(v, i - 1) = 1)]

\* an IR scan of the 4-bit value v and a DR scan of the n-bit value v, from
\* Run-Test/Idle or an Update state to the Update state
IrScan(v) ==
  NavPulses(<<TRUE, TRUE, FALSE, FALSE>>) \o ShiftPulses(4, v)
    \o NavPulses(<<TRUE>>)
DrScan(n, v) ==
  NavPulses(<<TRUE, FALSE, FALSE>>) \o ShiftPulses(n, v) \o NavPulses(<<TRUE>>)

\* the DR<23> values of the claim: 0x403000, 0x402000, 0x400000, 0x630000,
\* 0x670000, 0x6B0000, 0x6F0000, 0x730000, 0x770000, 0x7B0000, 0x7F0000
ConfigWrites ==
  <<4206592, 4202496, 4194304, 6488064, 6750208, 7012352, 7274496, 7536640,
    7798784, 8060928, 8323072>>

RECURSIVE ConfigScans(_)
\* the DR<23> writes i, i + 1, .., each followed by one idle clock
ConfigScans(i) ==
  IF i > Len(ConfigWrites) THEN <<>>
  ELSE DrScan(23, ConfigWrites[i]) \o IdlePulses(1) \o ConfigScans(i + 1)

\* the scans of the claim, from Run-Test/Idle on; the bit-reversed opcodes
\* 0x75, 0xFF, 0x80 are 0xAE, 0xFF, 0x01
InitScans ==
  IdlePulses(2)
    \o IrScan(2) \o DrScan(4, 4) \o IdlePulses(1)
    \o IrScan(3) \o ConfigScans(1)
    \o IrScan(2) \o DrScan(4, 1) \o IdlePulses(1)
    \o IrScan(12) \o DrScan(8, 174) \o DrScan(8, 255) \o DrScan(8, 1)
    \o IrScan(14) \o DrScan(16, 0)

\* the pulse p is the pulse e
Matches(e, p) == e.tms = p.tms /\ (e.care => e.tdi = p.tdi)

\* pulses of tap_init that enter the Jtag mode, before Tap::init
ModePulses == IF call.pre.mode \in {READY, ICP} THEN 10 ELSE 0

\* C17: Tap::init goes to Run-Test/Idle and then emits exactly this sequence:
\* 2 idle clocks; IR=0x2, DR<4>=0x4, 1 idle; IR=0x3; the eleven DR<23> writes
\* 0x403000 .. 0x7F0000, each followed by 1 idle clock; IR=0x2, DR<4>=0x1,
\* 1 idle; IR=0xC; DR<8> of the bit-reversed 0x75, 0xFF, 0x80; IR=0xE; a
\* 16-bit DR read shifting zeros.
C17_InitScans ==
  (pc = "done" /\ call.op = "tap_init") =>
    LET t == TmsOf(clk)
        k == Len(clk) - Len(InitScans)
    IN /\ k >= ModePulses
       /\ RunTarget(call.pre.state_, SubSeq(t, ModePulses + 1, k)) = RunTestIdle
       /\ \A j \in ModePulses..(k - 1) :
            RunTarget(call.pre.state_, SubSeq(t, ModePulses + 1, j)) # RunTestIdle
       /\ \A i \in 1..Len(InitScans) : Matches(InitScans[i], clk[k + i])
       /\ state_ = UpdateDR

C17_Witness ==
  /\ pc = "done" /\ call.op = "tap_init"
  /\ call.pre.mode = READY /\ call.pre.state_ = TestLogicReset
  /\ Len(clk) = 10 + 1 + Len(InitScans)
  /\ Len(InitScans) = 429
  /\ state_ = UpdateDR

\* phy_init has returned, called right after a phy_reset that was called
\* right after a tap_init that failed with ERR_IDCODE
Recovered == pc = "done" /\ recov = "phy_init"

\* C18 as stated: after tap_init has failed with ERR_IDCODE, in the sequence
\* phy_reset; phy_init the call of phy_init re-emits the magic sequence, and
\* the sequence ends with the mode Ready.
C18_RecoveryReemits ==
  Recovered => Emitted(log) /\ mode = READY

\* C18 (amended): after tap_init has failed with ERR_IDCODE, the sequence
\* phy_reset; phy_init ends with the mode Ready; phy_init finds the mode Ready
\* and returns without effect, emitting nothing, unless the mode was still
\* NotInitialized, and only then does it emit the magic sequence.
C18_RecoveryToReady ==
  Recovered =>
    /\ mode = READY
    /\ call.pre.mode \in {READY, NOT_INITIALIZED}
    /\ call.pre.mode = READY =>
         log = <<>> /\ ddr = call.pre.ddr /\ port = call.pre.port
    /\ Emitted(log) <=> call.pre.mode = NOT_INITIALIZED

C18_Witness ==
  /\ Recovered /\ call.op = "phy_init"
  /\ call.pre.mode = READY /\ mode = READY
  /\ log = <<>> /\ magic

\* ------------------------------------------------------------------------
\* CODESCAN
\* ------------------------------------------------------------------------

\* addresses passed to codescan_read: 0x0000, 0x1234, 0xFFFF and every
\* 16-bit address with one or two bits set
AddrInputs ==
  {0, 4660, 65535} \cup {2^i : i \in 0..15}
    \cup {2^q[1] + 2^q[2] : q \in {r \in (0..15) \X (0..15) : r[1] < r[2]}}

InitEnc ==
  /\ InitMachine
  /\ fin \in [address : AddrInputs]
  /\ fout = NoResult

\* the value on TDI during the n shift pulses of the last scan of the call,
\* first pulse = bit 0 (the scan ends with one more pulse)
ShiftedOut(m, n) ==
  FromBits({i \in 0..(n - 1) : m.clk[Len(m.clk) - n + i].tdi})

\* Tap::codescan_read(address) in Jtag mode: the value it packs and the value
\* its DR<30> scan puts on TDI
ApplyCodescanRead ==
  /\ fout = NoResult
  /\ fout' = [kind    |-> "codescan_read",
              packed  |-> CodescanDR_pack(fin.address, CodescanDR_READ, 0),
              shifted |-> ShiftedOut(codescan_read(JtagEntered, fin.address), 30)]
  /\ UNCHANGED <<fin, progVars>>

NextEnc == ApplyCodescanRead

SpecEnc == InitEnc /\ [][NextEnc]_vars

\* the 16-bit value a with its bits in reverse order
Rev16(a) == FromBits({15 - i : i \in {j \in 0..15 : Bit(a, j) = 1}})

\* C19 as stated: the 30-bit DR value shifted out by a CODESCAN read of the
\* address a is reverse16(a) in bits [15:0], the control value 0x20 in bits
\* [21:16] (0x00200000) and zero data in bits [29:22]; 0x00202C48 for 0x1234.
C19_Control0x20 ==
  fout.kind = "codescan_read" =>
    /\ fout.shifted = fout.packed
    /\ fout.packed = Rev16(fin.address) + 32 * 65536
    /\ fin.address = 4660 => fout.packed = 2108488

\* C19 (amended): the 30-bit DR value shifted out by a CODESCAN read of the
\* address a is reverse16(a) in bits [15:0], the control value 0b001000 (the
\* bit-reversed READ code 0x04 shifted right by 2) in bits [21:16]
\* (0x00080000) and zero data in bits [29:22]; 0x00082C48 for 0x1234.
C19_Control0x08 ==
  fout.kind = "codescan_read" =>
    /\ fout.shifted = fout.packed
    /\ fout.packed = Rev16(fin.address) + 8 * 65536
    /\ fin.address = 4660 => fout.packed = 535624

C19_Witness ==
  /\ fout.kind = "codescan_read" /\ fin.address = 4660
  /\ fout.packed = 535624 /\ fout.shifted = 535624

\* C20: every CODESCAN DR scan is followed by exactly 2 idle clocks (TMS low)
\* before another scan begins: a call of tap_codescan_read ends with the
\* pulse that leaves the scan followed by two pulses with TMS low, in
\* Run-Test/Idle.
C20_TwoIdleAfterCodescan ==
  (pc = "done" /\ call.op = "tap_codescan_read") =>
    /\ Len(clk) >= 3
    /\ clk[Len(clk) - 2].tms
    /\ ~clk[Len(clk) - 1].tms /\ ~clk[Len(clk)].tms
    /\ state_ = RunTestIdle

\* ------------------------------------------------------------------------
\* CODESCAN reads against a simulated target
\* ------------------------------------------------------------------------

\* number of codescan_read calls made in a row
MaxReads == 3

\* addresses requested: 0x0000, 0x0001, 0x1234, 0xFFFF
SimAddrs == {0, 1, 4660, 65535}

InitSim ==
  /\ InitMachine
  /\ fin \in [addrs : [1..MaxReads -> SimAddrs], latched : SimAddrs]
  /\ fout = NoResult

\* the k-th call of Tap::codescan_read in Jtag mode against the simulated
\* target, which starts with an address latched that no call requested
SimRead ==
  LET k == IF fout.kind = "none" THEN 1 ELSE fout.k + 1
      m == IF fout.kind = "none"
             THEN [JtagEntered EXCEPT !.tdo = "sim",
                                      !.sim.latched = fin.latched]
             ELSE [fout.m EXCEPT !.log = <<>>, !.clk = <<>>]
  IN /\ k <= MaxReads
     /\ fout' = [kind |-> "sim", k |-> k,
                 m |-> codescan_read(m, fin.addrs[k])]
     /\ UNCHANGED <<fin, progVars>>

NextSim == SimRead

SpecSim == InitSim /\ [][NextSim]_vars

\* C21: against a simulated target that answers each CODESCAN scan with the
\* data byte of the address requested by the previous scan (most significant
\* bit first in DR bits [29:22]), the k-th call of codescan_read returns the
\* flash byte at the address passed to call k-1, and the first call returns
\* the byte of the address the target held before, whatever address the
\* first call passes.
C21_CodescanLag ==
  fout.kind = "sim" =>
    /\ fout.m.ret = Flash(IF fout.k = 1 THEN fin.latched
                                        ELSE fin.addrs[fout.k - 1])
    /\ fout.m.sim.latched = fin.addrs[fout.k]

C21_Witness ==
  /\ fout.kind = "sim" /\ fout.k = 2
  /\ fin.addrs[1] = 4660 /\ fin.addrs[2] = 65535
  /\ fout.m.ret = Flash(4660) /\ fout.m.ret # Flash(65535)

\* ------------------------------------------------------------------------
\* Bit reversal
\* ------------------------------------------------------------------------

\* byte values placed beside every value of the other byte of a uint16_t:
\* 0x00, 0xFF, each single bit, 0x12, 0x34, 0x5A, 0xA5
EdgeBytes == {0, 255, 18, 52, 90, 165} \cup {2^i : i \in 0..7}

\* the uint16_t values drawn: every low byte beside each of EdgeBytes as high
\* byte, every high byte beside each of EdgeBytes as low byte; the uint8_t
\* values are those below 256, all of them
Words ==
  {256 * h + l : h \in EdgeBytes, l \in 0..255}
    \cup {256 * h + l : h \in 0..255, l \in EdgeBytes}

InitRev ==
  /\ InitMachine
  /\ fin \in [x : Words]
  /\ fout = NoResult

\* bit_reverse_8(x) and bit_reverse_8 of that, for a uint8_t x
ApplyReverse8 ==
  /\ fout = NoResult
  /\ fin.x < 256
  /\ LET r == bit_reverse_8(fin.x) IN
     fout' = [kind |-> "reverse8", r |-> r, rr |-> bit_reverse_8(r)]
  /\ UNCHANGED <<fin, progVars>>

\* bit_reverse_16(x) and bit_reverse_16 of that
ApplyReverse16 ==
  /\ fout = NoResult
  /\ LET r == bit_reverse_16(fin.x) IN
     fout' = [kind |-> "reverse16", r |-> r, rr |-> bit_reverse_16(r)]
  /\ UNCHANGED <<fin, progVars>>

NextRev == ApplyReverse8 \/ ApplyReverse16

SpecRev == InitRev /\ [][NextRev]_vars

\* C22: bit_reverse_8 and bit_reverse_16 are involutions that reverse the bit
\* order: for every x in 0..255, reverse8(reverse8(x)) = x and bit i of
\* reverse8(x) is bit 7-i of x; for every 16-bit x, reverse16(reverse16(x)) = x
\* and bit i of reverse16(x) is bit 15-i of x.
C22_ReverseInvolution ==
  /\ fout.kind = "reverse8" =>
       /\ fout.rr = fin.x
       /\ fout.r \in 0..255
       /\ \A i \in 0..7 : Bit(fout.r, i) = Bit(fin.x, 7 - i)
  /\ fout.kind = "reverse16" =>
       /\ fout.rr = fin.x
       /\ fout.r \in 0..65535
       /\ \A i \in 0..15 : Bit(fout.r, i) = Bit(fin.x, 15 - i)

C22_Witness ==
  /\ fout.kind = "reverse16" /\ fin.x = 4660
  /\ fout.r = 11336 /\ fout.rr = 4660

\* ------------------------------------------------------------------------
\* sinowealth::ICP called directly, in Icp mode
\* ------------------------------------------------------------------------

\* longest buffer passed to ICP::read_flash / ICP::write_flash
MaxData == 3

IcpAddrs == {0, 4660, 65385}
DataBytes == {90, 195}
IcpBuffers == UNION {[1..n -> DataBytes] : n \in 0..MaxData}
SentInputs == {0, 1, 73, 105, 128, 255}
Replies == {0, 104, 105, 150, 255}

\* the machine after construction, Phy::init and Phy::mode(Mode::ICP)
IcpEntered ==
  LET c == [ mode |-> NOT_INITIALIZED, state_ |-> TestLogicReset,
             ddr |-> [p \in Pins |-> FALSE], port |-> [p \in Pins |-> FALSE],
             hw |-> TestLogicReset, tdo |-> "zeros", log |-> <<>>, clk |-> <<>>,
             mlog |-> <<>>, mpos |-> <<>>, cap |-> {}, out |-> {},
             buf |-> <<>>,
             ret |-> "void", sim |-> NoSim ]
  IN Phy_mode(magic_sequence(gpio_early_setup(c)), ICP)

\* the machine at the start of a call, the target replaying the waveform sc
Scripted(sc) == [Fresh("script") EXCEPT !.sim.script = sc]

\* the waveform of a target that stays low while `skip` bytes are sent and
\* then answers the bytes of `bytes`, bit 0 of each byte first, one bit per
\* TCK pulse, low during the ninth pulse of each byte
ReplyScript(skip, bytes) ==
  {9 * (skip + q[1] - 1) + q[2] + 1 :
     q \in {r \in (1..Len(bytes)) \X (0..7) : Bit(bytes[r[1]], r[2]) = 1}}

\* ICP::send_byte
IcpSendByte ==
  \E b \in SentInputs, tp \in TdoPatterns :
    Finish("ICP::send_byte", <<b>>, send_byte(Fresh(tp), b), "void")

\* ICP::receive_byte
IcpReceiveByte ==
  \E r \in Replies :
    Finish("ICP::receive_byte", <<r>>,
      receive_byte(Scripted(ReplyScript(0, <<r>>))), "buffer")

\* ICP::verify; the target answers the bytes r1, r2
IcpVerify ==
  \E r1 \in Replies, r2 \in Replies :
    Finish("ICP::verify", <<r1, r2>>,
      verify(Scripted(ReplyScript(5, <<r1, r2>>))), "ret")

\* ICP::read_flash; the target answers every byte with r
IcpReadFlash ==
  \E a \in IcpAddrs, n \in 0..MaxData, r \in Replies :
    Finish("ICP::read_flash", <<a, n, r>>,
      read_flash(Scripted(ReplyScript(5, [k \in 1..n |-> r])), a, n),
      "buffer")

\* ICP::write_flash
IcpWriteFlash ==
  \E a \in IcpAddrs, b \in IcpBuffers, tp \in TdoPatterns :
    Finish("ICP::write_flash", <<a, b>>, write_flash(Fresh(tp), a, b), "ret")

\* TDO during ICP::erase_flash: low throughout, high throughout, high only
\* after the thirteenth byte, low only after the thirteenth byte
EraseScripts == {{}, 0..126, {117}, (0..126) \ {117}}

\* ICP::erase_flash
IcpEraseFlash ==
  \E a \in IcpAddrs, sc \in EraseScripts :
    Finish("ICP::erase_flash", <<a, sc>>, erase_flash(Scripted(sc), a), "ret")

NextIcp ==
  \/ IcpSendByte \/ IcpReceiveByte \/ IcpVerify \/ IcpReadFlash
  \/ IcpWriteFlash \/ IcpEraseFlash \/ Return

InitIcp ==
  /\ mode = IcpEntered.mode
  /\ ddr = IcpEntered.ddr
  /\ port = IcpEntered.port
  /\ state_ = TestLogicReset
  /\ hw = IcpEntered.hw
  /\ led = [ddr |-> FALSE, port |-> FALSE]
  /\ count = 0
  /\ pc = "idle"
  /\ log = <<>>
  /\ clk = <<>>
  /\ mlog = <<>>
  /\ mpos = <<>>
  /\ magic = TRUE
  /\ recov = "none"
  /\ call = NoCall
  /\ fin = NoInput
  /\ fout = NoResult

SpecIcp == InitIcp /\ [][NextIcp]_vars

\* the byte carried on TDI by the pulses 9j - 8 .. 9j - 1 of c, first pulse =
\* bit 7
ByteAt(c, j) ==
  FromBits({7 - i : i \in {k \in 0..7 : c[9 * (j - 1) + 1 + k].tdi}})

\* the pulses of c read as bytes of nine pulses each
WireBytes(c) == [j \in 1..(Len(c) \div 9) |-> ByteAt(c, j)]

\* buf[i], 0x00 for each i in 1..n-1 (buf[1] of the model is buf[0] of the
\* code)
DataPairs(buf) ==
  [k \in 1..(2 * (Len(buf) - 1)) |->
     IF k % 2 = 1 THEN buf[(k + 1) \div 2 + 1] ELSE 0]

\* C23: for every address and every buffer of length n >= 1, write_flash
\* sends exactly the bytes SET_IB_OFFSET_L, addr_lo, SET_IB_OFFSET_H, addr_hi,
\* SET_IB_DATA, buf[0], WRITE_UNLOCK, 0x15, 0x0A, 0x09, 0x06, then buf[i], 0x00
\* for each i in 1..n-1, then 0x00, 0xAA, 0x00, 0x00; it receives nothing and
\* returns true.
C23_WriteFlashBytes ==
  (pc = "done" /\ call.op = "ICP::write_flash" /\ Len(call.arg[2]) >= 1) =>
    /\ Len(clk) = 9 * (15 + 2 * (Len(call.arg[2]) - 1))
    /\ WireBytes(clk) =
         <<64, call.arg[1] % 256, 65, call.arg[1] \div 256, 66,
           call.arg[2][1], 110, 21, 10, 9, 6>>
         \o DataPairs(call.arg[2]) \o <<0, 170, 0, 0>>
    /\ call.buf = <<>>
    /\ call.ret = TRUE

C23_Witness ==
  /\ pc = "done" /\ call.op = "ICP::write_flash"
  /\ call.arg = <<4660, <<90, 195, 90>> >>
  /\ WireBytes(clk) = <<64, 52, 65, 18, 66, 90, 110, 21, 10, 9, 6,
                        195, 0, 90, 0, 0, 170, 0, 0>>

\* C24: icp_write called with a zero-length buffer returns false without side
\* effects: it produces no TCK pulse and no pin write, and the wire mode is
\* the same after the call as before it, from every starting mode.
C24_EmptyWriteNoEffect ==
  (pc = "done" /\ call.op = "icp_write" /\ Len(call.arg[2]) = 0) =>
    /\ call.ret = FALSE
    /\ clk = <<>>
    /\ log = <<>>
    /\ mode = call.pre.mode
    /\ port = call.pre.port

\* positions in the log l of the TDO samples taken between bytes (a sample
\* taken by stream_bits follows the rising edge of TCK)
StatusSamples(l) ==
  {i \in 2..Len(l) : l[i][1] = "TDO" /\ l[i - 1] = <<"TCK", FALSE>>}

\* TCK pulses in the log l before position i: rising edges followed by a TDO
\* sample or by the falling edge (a rise that leaves TCK high is no pulse)
PulsesBefore(l, i) ==
  Cardinality({j \in 1..i : /\ l[j] = <<"TCK", TRUE>>
                             /\ j < Len(l)
                             /\ l[j + 1][1] \in {"TCK", "TDO"}})

\* C25: erase_flash sends, in order, the set_address bytes, SET_IB_DATA, 0x00,
\* ERASE_UNLOCK, 0x15, 0x0A, 0x09, 0x06, 0x00, then 0x00, samples TDO once
\* between bytes, then sends 0x00; it returns the level sampled at that single
\* point (after the thirteenth byte), with no retry or polling.
C25_EraseSingleSample ==
  (pc = "done" /\ call.op = "ICP::erase_flash") =>
    /\ Len(clk) = 126
    /\ WireBytes(clk) =
         <<64, call.arg[1] % 256, 65, call.arg[1] \div 256, 66, 0,
           230, 21, 10, 9, 6, 0, 0, 0>>
    /\ Cardinality(StatusSamples(log)) = 1
    /\ \A i \in StatusSamples(log) :
         /\ PulsesBefore(log, i) = 117
         /\ call.ret = log[i][2]
    /\ call.ret = (117 \in call.arg[2])

C25_Witness ==
  /\ pc = "done" /\ call.op = "ICP::erase_flash"
  /\ call.arg = <<4660, {117}>>
  /\ call.ret = TRUE
  /\ Cardinality(StatusSamples(log)) = 1

\* C26: verify sends 0x40, 0x69, 0x41, 0xFF, 0x43, then receives exactly two
\* bytes (TDI low), and returns true if and only if the first received byte
\* equals 0x69, whatever the second byte is.
C26_VerifyFirstByte ==
  (pc = "done" /\ call.op = "ICP::verify") =>
    /\ Len(clk) = 63
    /\ WireBytes(clk) = <<64, 105, 65, 255, 67, 0, 0>>
    /\ call.buf = call.arg
    /\ call.ret = (call.arg[1] = 105)

C26_Witness ==
  /\ pc = "done" /\ call.op = "ICP::verify"
  /\ call.arg = <<105, 255>> /\ call.buf = <<105, 255>>
  /\ call.ret = TRUE

\* C27: every ICP byte is framed the same way on the wire: send_byte(b) puts
\* bit 7 of b first and bit 0 last on TDI over 8 clocks and then emits one
\* trailing clock; receive_byte holds TDI at 0 and returns the byte whose bit
\* i is the i-th TDO sample; TMS is low on every one of these clocks.
C27_ByteFraming ==
  /\ (pc = "done" /\ call.op = "ICP::send_byte") =>
       /\ Len(clk) = 9
       /\ \A i \in 0..7 : clk[i + 1].tdi = (Bit(call.arg[1], 7 - i) = 1)
       /\ \A k \in 1..9 : ~clk[k].tms
  /\ (pc = "done" /\ call.op = "ICP::receive_byte") =>
       /\ Len(clk) = 9
       /\ \A k \in 1..9 : ~clk[k].tdi /\ ~clk[k].tms
       /\ Len(Samples) = 8
       /\ Len(call.buf) = 1
       /\ \A i \in 0..7 : (Bit(call.buf[1], i) = 1) = Samples[i + 1][2]
       /\ call.buf[1] = call.arg[1]
  /\ (pc = "done" /\ call.op \in {"ICP::verify", "ICP::read_flash",
                                  "ICP::write_flash", "ICP::erase_flash"}) =>
       /\ Len(clk) % 9 = 0
       /\ \A k \in 1..Len(clk) : ~clk[k].tms

C27_Witness ==
  /\ pc = "done" /\ call.op = "ICP::send_byte" /\ call.arg = <<73>>
  /\ Len(clk) = 9
  /\ ~clk[1].tdi /\ clk[2].tdi /\ clk[5].tdi /\ clk[8].tdi

\* commands that enter Icp mode before they send ICP bytes
IcpEntryOps == {"icp_init", "icp_read", "icp_erase", "icp_write"}

\* TCK pulses of the Jtag reset made by a command called in the mode md
ResetPulses(md) == IF md = JTAG THEN 35 ELSE 0

\* C28: when icp_init, icp_read, icp_erase or icp_write is called while the
\* mode is Jtag, the Jtag reset is made first (35 pulses with TMS high, mode
\* Ready), then the ICP mode byte is sent (10 pulses with TMS low, mode Icp),
\* and only then the first command byte PING; called while the mode is Ready,
\* the mode byte alone precedes PING.
C28_IcpEntryOrder ==
  (pc = "done" /\ call.op \in IcpEntryOps /\ call.pre.mode \in {JTAG, READY}) =>
    LET off == ResetPulses(call.pre.mode)
        at  == IF call.pre.mode = JTAG THEN 2 ELSE 1
    IN /\ Len(clk) >= off + 28
       /\ \A k \in 1..off : clk[k].tms
       /\ \A k \in 1..10 :
            /\ ~clk[off + k].tms
            /\ clk[off + k].tdi = (k <= 8 /\ Bit(ICP, k - 1) = 1)
       /\ \A k \in 1..18 : ~clk[off + 10 + k].tms
       /\ \A i \in 0..7 : clk[off + 11 + i].tdi = (Bit(PING, 7 - i) = 1)
       /\ Len(mlog) >= at + 1
       /\ mlog[1] = call.pre.mode
       /\ mlog[at] = READY /\ PulsesBefore(log, mpos[at]) = off
       /\ mlog[at + 1] = ICP /\ PulsesBefore(log, mpos[at + 1]) = off + 10

C28_Witness ==
  /\ pc = "done" /\ call.op = "icp_erase" /\ call.pre.mode = JTAG
  /\ SubSeq(mlog, 1, 3) = <<JTAG, READY, ICP>>
  /\ clk[35].tms /\ ~clk[36].tms /\ clk[36].tdi

\* C29: whenever icp_read, icp_erase or icp_write is called with a mode other
\* than NotInitialized, the call returns with mode Ready on every return
\* path, including size 0 and the path of icp_read where the buffer cannot be
\* allocated.
C29_IcpReturnsReady ==
  (/\ pc = "done"
   /\ call.op \in {"icp_read", "icp_erase", "icp_write"}
   /\ call.pre.mode # NOT_INITIALIZED) => mode = READY

\* C30: tap_dr performs a DR scan of exactly `bits` bits (the bits of `out`
\* on TDI, bit 0 first) for bits in {4, 8, 16, 23, 30, 32}; for every other
\* width it emits no TCK pulse, leaves the tracked TAP state unchanged and
\* returns 0.
C30_DrWidths ==
  (pc = "done" /\ call.op = "tap_dr") =>
    IF call.arg[1] \in {4, 8, 16, 23, 30, 32}
    THEN /\ ScanShape(call.pre.state_, ShiftDR, call.arg[1])
         /\ state_ = UpdateDR
         /\ \A i \in 1..call.arg[1] :
              clk[Len(clk) - (call.arg[1] + 1) + i].tdi = ((i - 1) \in call.arg[2])
    ELSE /\ clk = <<>>
         /\ log = <<>>
         /\ state_ = call.pre.state_
         /\ call.ret = {}

C30_Witness ==
  /\ pc = "done" /\ call.op = "tap_dr" /\ call.arg[1] = 33
  /\ call.pre.state_ = UpdateDR /\ state_ = UpdateDR
  /\ clk = <<>> /\ call.ret = {}

\* C31: sinowealth::Tap::exit() leaves JTAG and returns to Ready exactly as
\* Phy::reset() does from Jtag: it puts 35 clocks with TMS high on the wire
\* and the wire mode afterwards is Ready.
C31_ExitLikePhyReset ==
  (pc = "done" /\ call.op = "Tap::exit" /\ call.pre.mode = JTAG) =>
    /\ Len(clk) = 35
    /\ \A k \in 1..Len(clk) : clk[k].tms
    /\ mode = READY

StreamWidths == {1, 2, 8, 10, 32}
StreamOuts == {{}, ToBits(165), 0..31}

InitStream ==
  /\ InitMachine
  /\ fin \in [out : StreamOuts, n : StreamWidths, exit : BOOLEAN,
               tdo : TdoPatterns]
  /\ fout = NoResult

\* Phy::stream_bits(out, n, exit) once the pins are configured
ApplyStreamBits ==
  /\ fout = NoResult
  /\ fout' = [kind |-> "stream_bits",
              m |-> stream_bits([IcpEntered EXCEPT !.tdo = fin.tdo,
                                                   !.log = <<>>, !.clk = <<>>],
                                fin.n, fin.exit, fin.out)]
  /\ UNCHANGED <<fin, progVars>>

NextStream == ApplyStreamBits

SpecStream == InitStream /\ [][NextStream]_vars

\* C33: in stream_bits(out, n, exit), for each bit i in 0..n-1, TMS is high
\* iff exit and i = n-1 and TDI equals bit i of out; both are written before
\* TCK rises and nothing is written to them until TCK is low again; TDO is
\* sampled into bit i of the result after the rising edge and before the
\* falling edge of TCK; TCK is low when the call returns.
C33_StreamBitsTiming ==
  fout.kind = "stream_bits" =>
    LET l == fout.m.log
        n == fin.n
    IN /\ Len(l) = 6 * n
       /\ Len(fout.m.clk) = n
       /\ \A i \in 0..(n - 1) :
            /\ l[6 * i + 1] = <<"TMS", fin.exit /\ i = n - 1>>
            /\ l[6 * i + 2] = <<"TDI", i \in fin.out>>
            /\ l[6 * i + 3] = <<"TCK", FALSE>>
            /\ l[6 * i + 4] = <<"TCK", TRUE>>
            /\ l[6 * i + 5] = <<"TDO", TdoLevel(fin.tdo, i + 1)>>
            /\ l[6 * i + 6] = <<"TCK", FALSE>>
            /\ fout.m.clk[i + 1] =
                 [tms |-> fin.exit /\ i = n - 1, tdi |-> i \in fin.out]
            /\ (i \in fout.m.cap) = TdoLevel(fin.tdo, i + 1)
       /\ fout.m.cap \subseteq 0..(n - 1)
       /\ ~fout.m.port["TCK"]

C33_Witness ==
  /\ fout.kind = "stream_bits"
  /\ fin = [out |-> ToBits(165), n |-> 8, exit |-> TRUE, tdo |-> "alt"]
  /\ fout.m.cap = {0, 2, 4, 6}
  /\ fout.m.clk[8] = [tms |-> TRUE, tdi |-> TRUE]
  /\ ~fout.m.port["TCK"]

\* ------------------------------------------------------------------------
\* The VREF wait of Phy::init
\* ------------------------------------------------------------------------

RECURSIVE LowPolls(_)
\* number of polls in the log l that found VREF low
LowPolls(l) ==
  IF l = <<>> THEN 0
  ELSE LowPolls(Tail(l))
       + (IF Head(l)[1] = "VREF" /\ Len(Head(l)) = 3 /\ ~Head(l)[2]
            THEN Head(l)[3] ELSE 0)

\* VREF has been found high during the current call
VrefSeen == \E i \in 1..Len(log) : log[i] = <<"VREF", TRUE, 1>>

\* a call of init(wait_vref = true) made in NotInitialized
WaitingInit ==
  /\ call.op \in InitOps
  /\ call.arg[1]
  /\ call.pre.mode = NOT_INITIALIZED

\* C34: init(wait_vref=true) from NotInitialized does not complete and does
\* not make TCK, TMS or TDI outputs while VREF stays low, however many polls
\* are made; it toggles the LED once per 256 polls; when VREF is sampled
\* high it ends with the LED off and mode Ready.
C34_WaitsForVref ==
  /\ pc = "wait_vref" =>
       /\ WaitingInit
       /\ ~VrefSeen
       /\ mode = NOT_INITIALIZED
       /\ ~ddr["TCK"] /\ ~ddr["TMS"] /\ ~ddr["TDI"]
       /\ clk = <<>>
       /\ led.ddr
       /\ led.port = ((LowPolls(log) \div 256) % 2 = 1)
       /\ count = LowPolls(log) % 256
  /\ (pc = "done" /\ WaitingInit) =>
       /\ VrefSeen
       /\ mode = READY
       /\ ~led.port

C34_Witness ==
  /\ pc = "wait_vref" /\ WaitingInit
  /\ LowPolls(log) = 256 /\ led.port /\ count = 0
  /\ ~ddr["TCK"]

C34_WitnessHigh ==
  /\ pc = "done" /\ WaitingInit /\ VrefSeen
  /\ LowPolls(log) = 256 /\ ~led.port /\ mode = READY

\* ------------------------------------------------------------------------
\* Tie-break of goto_state
\* ------------------------------------------------------------------------

\* a comes before b, or is b, in the order that puts TMS = 0 before TMS = 1
\* at the first level where two sequences of the same length differ
LexLeq(a, b) ==
  \/ a = b
  \/ \E i \in 1..Len(a) :
       /\ \A j \in 1..(i - 1) : a[j] = b[j]
       /\ ~a[i] /\ b[i]

\* C35: for every pair (from, to) of TAP states, the TMS sequence emitted by
\* goto_state is the lexicographically smallest (TMS = 0 before TMS = 1) among
\* all shortest TMS sequences from `from` to `to`; TestLogicReset -> ShiftDR
\* emits 0,1,0,0 and RunTestIdle -> ShiftDR emits 1,0,0.
C35_LexSmallestPath ==
  fout.kind = "goto_state" =>
    /\ RunTms(fin.from, fout.seq) = fin.to
    /\ \A t \in [1..Len(fout.seq) -> BOOLEAN] :
         RunTms(fin.from, t) = fin.to => LexLeq(fout.seq, t)
    /\ (fin.from = TestLogicReset /\ fin.to = ShiftDR) =>
         fout.seq = <<FALSE, TRUE, FALSE, FALSE>>
    /\ (fin.from = RunTestIdle /\ fin.to = ShiftDR) =>
         fout.seq = <<TRUE, FALSE, FALSE>>

\* in the IEEE 1149.1 graph every pair of states is joined by one shortest
\* sequence only, so the order in which the search tries TMS = 0 and TMS = 1
\* never decides between two of them
ShortestUnique ==
  fout.kind = "goto_state" =>
    \A t \in [1..Len(fout.seq) -> BOOLEAN] :
      RunTms(fin.from, t) = fin.to => t = fout.seq

C35_Witness ==
  /\ fout.kind = "goto_state"
  /\ fin.from = RunTestIdle /\ fin.to = ShiftDR
  /\ fout.seq = <<TRUE, FALSE, FALSE>>
  /\ RunTms(RunTestIdle, <<TRUE, FALSE, FALSE>>) = ShiftDR

\* C36: reset() emits exactly five clocks with TMS high and sets the tracked
\* state to TestLogicReset; five clocks with TMS high bring a target TAP to
\* TestLogicReset from each of the 16 states, so after reset() the tracked
\* state and the target state agree even if they disagreed before.
C36_ResetResynchronises ==
  /\ \A s \in States :
       RunTarget(s, <<TRUE, TRUE, TRUE, TRUE, TRUE>>) = TestLogicReset
  /\ (pc = "done" /\ call.op = "tap_reset") =>
       /\ TmsOf(clk) = <<TRUE, TRUE, TRUE, TRUE, TRUE>>
       /\ state_ = TestLogicReset
       /\ hw = TestLogicReset

C36_Witness ==
  /\ pc = "done" /\ call.op = "tap_reset"
  /\ call.pre.state_ # call.pre.hw
  /\ call.pre.hw # TestLogicReset
  /\ Len(clk) = 5
  /\ state_ = TestLogicReset /\ hw = TestLogicReset

\* ------------------------------------------------------------------------
\* Ownership of the wire mode
\* ------------------------------------------------------------------------

\* the operations of SimpleJTAG::Tap and sinowealth::Tap called in Jtag mode
\* and those of sinowealth::ICP called in Icp mode; none of them is a method
\* of the mode manager
InitOwn == InitTap \/ InitIcp

NextOwn ==
  \/ (mode = JTAG /\ NextTap)
  \/ (mode = ICP /\ NextIcp)

SpecOwn == InitOwn /\ [][NextOwn]_vars

FlashAddrs == {0, 1, 255, 256, 4660, 65534, 65535}

InitFlash ==
  /\ InitMachine
  /\ fin \in [addr : FlashAddrs, latched : SimAddrs]
  /\ fout = NoResult

\* jtag::flash::start(tap, addr) in Jtag mode against the simulated target
FlashStart ==
  /\ fout.kind = "none"
  /\ fout' = [kind |-> "flash", k |-> 0,
              it |-> flash_start([JtagEntered EXCEPT
                                    !.tdo = "sim",
                                    !.sim.latched = fin.latched],
                                 fin.addr)]
  /\ UNCHANGED <<fin, progVars>>

\* Iterator::operator++ (either form) on the iterator start returned
FlashAdvance ==
  /\ fout.kind = "flash"
  /\ fout.k < MaxReads
  /\ fout' = [kind |-> "flash", k |-> fout.k + 1,
              it |-> Iterator_read_next(
                       [fout.it EXCEPT !.m.log = <<>>, !.m.clk = <<>>])]
  /\ UNCHANGED <<fin, progVars>>

NextFlash == FlashStart \/ FlashAdvance

SpecFlash == InitFlash /\ [][NextFlash]_vars

\* C38: for a flash iterator obtained from start(tap, a) and advanced k
\* times, address() returns (a + k) mod 2^16, the address of the byte that
\* operator* yields under the one-scan data lag.
C38_AddressOfYieldedByte ==
  fout.kind = "flash" =>
    /\ Iterator_address(fout.it) = (fin.addr + fout.k) % 65536
    /\ Iterator_deref(fout.it) = Flash(Iterator_address(fout.it))

\* what the iterator does: operator* yields the byte of (a + k) mod 2^16,
\* address() returns (a + k + 1) mod 2^16, and two scans were made by start
\* and one by each advance
C38_AddressOneAhead ==
  fout.kind = "flash" =>
    /\ Iterator_deref(fout.it) = Flash((fin.addr + fout.k) % 65536)
    /\ Iterator_address(fout.it) = (fin.addr + fout.k + 1) % 65536
    /\ fout.it.addr_ = (fin.addr + fout.k + 2) % 65536
    /\ fout.it.m.sim.latched = (fin.addr + fout.k + 1) % 65536

C38_Witness ==
  /\ fout.kind = "flash" /\ fout.k = 2 /\ fin.addr = 65534
  /\ Iterator_deref(fout.it) = Flash(0)
  /\ Iterator_address(fout.it) = 1

\* ------------------------------------------------------------------------
\* Runs of TMS=1 clocks on the wire across TAP commands
\* ------------------------------------------------------------------------

\* the count of trailing TMS=1 clocks kept for the wire saturates here
MaxOnes == 15

\* the body of the RPC handler of the TAP command c (tap::reset, tap::init,
\* ... call the same-named method of the one Tap object; tap::dr switches on
\* the width)
tap_command(m, c) ==
  CASE c[1] = "tap_reset"         -> Tap_reset(m)
    [] c[1] = "tap_goto_state"    -> goto_state(m, c[2])
    [] c[1] = "tap_ir"            -> IR(m, c[2])
    [] c[1] = "tap_dr"            ->
         IF c[2] \in {4, 8, 16, 23, 30, 32} THEN DR(m, c[2], c[3]) ELSE m
    [] c[1] = "tap_bypass"        -> bypass(m)
    [] c[1] = "tap_idcode"        -> idcode(m)
    [] c[1] = "tap_idle_clocks"   -> idle_clocks(m, c[2])
    [] c[1] = "tap_codescan_read" -> codescan_read(m, c[2])
    [] c[1] = "tap_init"          -> Tap_init(Phy_mode(m, JTAG))

\* the commands issued and their arguments
WireCmds ==
  { <<"tap_reset">>, <<"tap_bypass">>, <<"tap_idcode">>, <<"tap_init">>,
    <<"tap_ir", ToBits(IDCODE)>>, <<"tap_dr", 8, ToBits(165)>>,
    <<"tap_idle_clocks", 1>>, <<"tap_codescan_read", 4660>> }
  \cup { <<"tap_goto_state", tg>> : tg \in {TestLogicReset, ShiftDR} }

\* the number (up to MaxOnes) of TMS=1 clocks that end the wire made of prev
\* such clocks followed by the pulses l
TrailingOnes(prev, l) ==
  LET n == Len(l)
      c == IF n < MaxOnes THEN n ELSE MaxOnes
      k == CHOOSE i \in 0..c :
             /\ \A j \in (n - i + 1)..n : l[j].tms
             /\ i = c \/ ~l[n - i].tms
      t == IF k = n THEN prev + n ELSE k
  IN IF t < MaxOnes THEN t ELSE MaxOnes

\* the wire made of prev TMS=1 clocks followed by the pulses l holds n
\* consecutive TMS=1 clocks that end inside l
OnesRun(prev, l, n) ==
  \/ \E k \in 1..(IF Len(l) < n THEN Len(l) ELSE n) :
       /\ prev + k >= n
       /\ \A j \in 1..k : l[j].tms
  \/ \E i \in 1..(Len(l) - n + 1) : \A j \in i..(i + n - 1) : l[j].tms

\* the machine a command starts from and the TMS=1 clocks that end the wire
WireBefore ==
  IF fout.kind = "none"
    THEN [m |-> [JtagEntered EXCEPT !.log = <<>>, !.clk = <<>>],
          ones |-> TrailingOnes(0, JtagEntered.clk)]
    ELSE [m |-> [fout.m EXCEPT !.log = <<>>, !.clk = <<>>, !.cap = {},
                               !.ret = "void"],
          ones |-> fout.ones]

InitWire ==
  /\ InitMachine
  /\ fin = NoInput
  /\ fout = NoResult

\* one TAP command in Jtag mode
WireTapCommand ==
  \E c \in WireCmds :
    LET b == WireBefore
        m == tap_command(b.m, c)
    IN /\ b.m.mode = JTAG
       /\ fout' = [kind |-> "wire", cmd |-> c, before |-> b.ones, m |-> m,
                   ones |-> TrailingOnes(b.ones, m.clk)]
       /\ UNCHANGED <<fin, progVars>>

\* phy::reset (the mode manager's reset) in Jtag mode
WirePhyReset ==
  LET b == WireBefore
      m == Phy_reset(b.m)
  IN /\ b.m.mode = JTAG
     /\ fout' = [kind |-> "wire", cmd |-> <<"phy_reset">>, before |-> b.ones,
                 m |-> m, ones |-> TrailingOnes(b.ones, m.clk)]
     /\ UNCHANGED <<fin, progVars>>

NextWire == WireTapCommand \/ WirePhyReset

SpecWire == InitWire /\ [][NextWire]_vars

\* C39: while mode is Jtag no sequence of TAP commands puts 14 or more
\* consecutive TMS=1 clocks on the wire; only the mode manager's reset(),
\* which also sets mode to Ready, does.
C39_NoLongOnesRun ==
  fout.kind = "wire" =>
    (OnesRun(fout.before, fout.m.clk, 14) <=>
       (fout.cmd = <<"phy_reset">> /\ fout.m.mode = READY))

\* C39 (amended): while mode is Jtag no single TAP command puts 14 or more
\* consecutive TMS=1 clocks on the wire and each leaves mode Jtag; one
\* tap_reset puts exactly 5, all with TMS=1, so the runs of successive
\* commands add up (15 after three tap_reset in a row); the mode manager's
\* reset() puts 35 in one call and sets mode to Ready.
C39_NoLongOnesRunPerCommand ==
  fout.kind = "wire" =>
    IF fout.cmd = <<"phy_reset">>
      THEN /\ OnesRun(0, fout.m.clk, 35)
           /\ fout.m.mode = READY
      ELSE /\ ~OnesRun(0, fout.m.clk, 14)
           /\ fout.m.mode = JTAG
           /\ fout.cmd = <<"tap_reset">> =>
                /\ Len(fout.m.clk) = 5
                /\ \A j \in 1..5 : fout.m.clk[j].tms
                /\ fout.ones = (IF fout.before + 5 < MaxOnes
                                  THEN fout.before + 5 ELSE MaxOnes)

C39_Witness ==
  /\ fout.kind = "wire" /\ fout.cmd = <<"tap_reset">>
  /\ fout.before = 10 /\ fout.ones = 15
  /\ fout.m.mode = JTAG
  /\ OnesRun(fout.before, fout.m.clk, 14)

\* ------------------------------------------------------------------------
\* tap::goto_state on every byte a caller can pass
\* ------------------------------------------------------------------------

RECURSIVE bfs_while_oob(_, _)
\* `while (head < tail && !visited[goal])` for a goal above 15: visited[goal]
\* lies beyond `bool visited[16]`, and v is what that read yields
bfs_while_oob(b, v) ==
  IF b.head < b.tail /\ ~v
    THEN LET s  == b.queue[b.head]
             b0 == [b EXCEPT !.head = @ + 1]
             b1 == bfs_visit(b0, s, 0)
             b2 == bfs_visit(b1, s, 1)
         IN bfs_while_oob(b2, v)
    ELSE b

RECURSIVE bfs_backtrack_oob(_, _, _, _, _)
\* `for (cur = goal; cur != start; cur = prev[cur]) seq[len++] = prev_tms[cur]`
\* when the search has written nothing: every prev[cur] and prev_tms[cur]
\* is read beyond the array or from a slot never written. The i-th such
\* reads yield o.tms[i] and, for prev, start on the o.hops-th and another
\* state before
bfs_backtrack_oob(cur, start, seq, o, i) ==
  IF cur = start THEN seq
  ELSE bfs_backtrack_oob(IF i = o.hops THEN start ELSE (start + 1) % 16,
                         start, Append(seq, o.tms[i]), o, i + 1)

\* the table indices a search that ended with the locals b used: the states
\* taken from and put into the queue (indices of visited, prev, prev_tms),
\* the goal (index of visited), and the slots of queue and seq
bfs_indices(b, goal, len) ==
  {goal} \cup {b.queue[i] : i \in 0..(b.tail - 1)}
         \cup {next_state(b.queue[i], t) : i \in 0..(b.head - 1), t \in BOOLEAN}
         \cup 0..(b.tail - 1) \cup 0..(len - 1)

\* Tap::goto_state(static_cast<State>(target)) for a uint8_t target, the
\* tracked state being start; o is what the reads that have no defined
\* value yield. seq is the levels passed to step() in order, idx the table
\* indices used, tail the final value of tail.
goto_state_u8(start, target, o) ==
  IF start = target
    THEN [seq |-> <<>>, idx |-> {}, tail |-> 0]
  ELSE IF target \in States
    THEN LET b == bfs_while(bfs_start(start), target)
             seq == goto_seq(start, target)
         IN [seq |-> seq, idx |-> bfs_indices(b, target, Len(seq)),
             tail |-> b.tail]
  ELSE LET b == bfs_while_oob(bfs_start(start), o.visited)
           seq == IF ~o.visited THEN <<>>
                  ELSE bfs_backtrack_oob(target, start, <<>>, o, 1)
       IN [seq |-> [i \in 1..Len(seq) |-> Reverse(seq)[i] # 0],
           idx |-> bfs_indices(b, target, Len(seq)),
           tail |-> b.tail]

\* target bytes: four states, the first two bytes above the table and 0xFF
TargetBytes == {TestLogicReset, ShiftDR, SelectIRScan, UpdateIR, 16, 17, 255}

\* what the undefined reads yield: visited[goal], and the bytes of up to two
\* rounds of the backtracking loop
OobReads == [visited : BOOLEAN, hops : 1..2, tms : [1..2 -> 0..1]]

InitGoto ==
  /\ InitMachine
  /\ fin \in [from : States, target : TargetBytes, oob : OobReads]
  /\ fout = NoResult

\* tap::goto_state(target) with the tracked state fin.from
ApplyGotoStateU8 ==
  /\ fout = NoResult
  /\ LET r == goto_state_u8(fin.from, fin.target, fin.oob)
     IN fout' = [kind |-> "goto_u8", seq |-> r.seq, idx |-> r.idx,
                 tail |-> r.tail, state_ |-> RunTms(fin.from, r.seq)]
  /\ UNCHANGED <<fin, progVars>>

NextGoto == ApplyGotoStateU8

SpecGoto == InitGoto /\ [][NextGoto]_vars

\* C40: for every target byte (0..255) and every tracked state, goto_state
\* uses its 16-entry tables only at indices 0..15, the queue never holds
\* more than 16 entries, the emitted sequence never exceeds 15 clocks, and
\* for a target above 15 no clock is emitted and the tracked state is
\* unchanged.
C40_TablesInBounds ==
  fout.kind = "goto_u8" =>
    /\ fout.idx \subseteq 0..15
    /\ fout.tail <= 16
    /\ Len(fout.seq) <= 15
    /\ fin.target > 15 => (fout.seq = <<>> /\ fout.state_ = fin.from)

\* for a target that is a state the claim holds, and the tracked state
\* becomes the target
C40_InBoundsForStates ==
  (fout.kind = "goto_u8" /\ fin.target \in States) =>
    /\ fout.idx \subseteq 0..15
    /\ fout.tail <= 16
    /\ Len(fout.seq) <= 15
    /\ fout.state_ = fin.target

\* a target above 15 for which a clock is emitted
C40_Witness ==
  /\ fout.kind = "goto_u8" /\ fin.target = 16 /\ fin.from = RunTestIdle
  /\ fin.target \in fout.idx
  /\ fout.seq = <<TRUE>> /\ fout.state_ = SelectDRScan
====
